---------------------------- MODULE Spec2Model ----------------------------
(***************************************************************************)
(* The cache-backed record store of dakara-server                          *)
(* (src/dakara_server/internal/cache_model.py): CacheManager, CacheModel,  *)
(* the on-delete policies DO_NOTHING and CASCADE and their dispatch by the *)
(* pre_delete signal.                                                      *)
(*                                                                         *)
(* Processes are concurrent callers (threads, request handlers) sharing    *)
(* one cache backend.  A call is followed statement by statement through   *)
(* _access_store: waiting for the lock, cache.get with the wrapped block   *)
(* (which only touches the caller's local dict), cache.set, and leaving    *)
(* the `with lock` statement.                                              *)
(*                                                                         *)
(* Declared schema (the repository declares Player(CacheModel) with a      *)
(* foreign key to the database model Karaoke):                             *)
(*    Karaoke  database model (django Model), rows 1..MaxRef               *)
(*    Player   CacheModel {id, karaoke: ForeignKey(Karaoke, on_delete=P)}  *)
(*    Item     CacheModel {id, player:  ForeignKey(Player, CASCADE)}       *)
(*    Link     CacheModel {id, karaoke: ForeignKey(Karaoke, on_delete=P),  *)
(*                             origin:  ForeignKey(Karaoke, on_delete=P')} *)
(* Link stands for a record type with more than one foreign key; it is     *)
(* defined while the system runs, where its definition is studied.         *)
(* P is CASCADE or DO_NOTHING, chosen when the type is declared.           *)
(* A foreign-key value is written as the primary key of the related        *)
(* instance (django compares model instances by primary key).              *)
(***************************************************************************)
EXTENDS Integers, Sequences, FiniteSets, TLC

\* ------------------------------------------------------------------ bounds
\* largest primary key a collection may hold
MaxPk == 3
\* rows of the database model, and so the values a foreign key takes
MaxRef == 2
\* public operations started in one behaviour
MaxOps == 3

Procs == {"p1", "p2"}

\* ------------------------------------------------------------- the schema
\* `instance.pk is None` (line 176): no primary key yet.  Keys are >= 1.
None == -1

CacheTypes == {"Player", "Item"}
DbModels == {"Karaoke"}

\* the record types a class statement can define
Declarable == CacheTypes \cup {"Link"}

\* the foreign keys of a cache type by field.name, in the order of the class
\* body
ForeignKeys(T) ==
    CASE T = "Player" -> << "karaoke" >>
      [] T = "Item" -> << "player" >>
      [] T = "Link" -> << "karaoke", "origin" >>

\* field.remote_field.model of the foreign key f of T
Remote(T, f) == IF T = "Item" THEN "Player" ELSE "Karaoke"

\* field.name of the first foreign key of a cache type
FkField(T) == Head(ForeignKeys(T))

\* field.remote_field.model of that foreign key
RemoteModel(T) == Remote(T, FkField(T))

\* model._meta.concrete_fields, in order: the primary key, then the
\* foreign keys
Fields(T) == << "id" >> \o ForeignKeys(T)

\* model._meta.concrete_fields, by name
ConcreteFields(T) == {Fields(T)[i] : i \in 1..Len(Fields(T))}

\* a test that takes every field for a foreign key
IsForeignKeyAny(T, f) == TRUE

\* isinstance(field, models.ForeignKey), line 43
IsForeignKey(T, f) == \E i \in 1..Len(ForeignKeys(T)) : ForeignKeys(T)[i] = f

\* one store name for every manager
StoreNameShared(T) == "CacheStore"

\* CacheManager._connect: self._store_name = f"{self.name}:CacheStore"
StoreName(T) == T \o ":CacheStore"

\* dispatch_uid of the handle a manager registers for its foreign key f
FieldUid(T, f) == T \o ":" \o f \o ":" \o Remote(T, f) \o ":Handle"

\* dispatch_uid of the handle a manager registers for its first foreign key
DispatchUid(T) == FieldUid(T, FkField(T))

\* ------------------------------------------------------- python dictionaries
EmptyDict == << >>

DictSet(d, k, v) == [x \in (DOMAIN d) \cup {k} |-> IF x = k THEN v ELSE d[x]]

DictDel(d, k) == [x \in (DOMAIN d) \ {k} |-> d[x]]

Max(S) == CHOOSE m \in S : \A x \in S : x <= m

\* d.update(e), the entries of d kept where e has the key too
UpdateKeep(d, e) ==
    [x \in (DOMAIN d) \cup (DOMAIN e) |-> IF x \in DOMAIN d THEN d[x] ELSE e[x]]

\* d.update(e): the entries of e replace those of d
Update(d, e) ==
    [x \in (DOMAIN d) \cup (DOMAIN e) |-> IF x \in DOMAIN e THEN e[x] ELSE d[x]]

\* ------------------------------------------------------------ model instances
\* self.model(**kwargs): every concrete field, None where no value is given;
\* the keyword pk is the primary key field
Model(T, kwargs) ==
    [f \in ConcreteFields(T) |->
        IF f \in DOMAIN kwargs THEN kwargs[f]
        ELSE IF f = "id" /\ "pk" \in DOMAIN kwargs THEN kwargs["pk"]
        ELSE None]

\* getattr(obj, name); obj.pk is the value of the primary key field
GetAttr(obj, name) == IF name = "pk" THEN obj["id"] ELSE obj[name]

\* one keyword argument
Kw(name, value) == [n \in {name} |-> value]

\* the instances callers hold: fresh ones (no pk), and copies with a pk
Instances(T) ==
    { [f \in ConcreteFields(T) |-> IF f = "id" THEN k ELSE v] :
        k \in {None} \cup (1..MaxPk), v \in 1..MaxRef }

\* the instances callers pass to delete(), which reads their pk alone
Deletable(T) == {instance \in Instances(T) : instance[FkField(T)] = 1}

\* the criteria callers pass to get(): by primary key, by foreign key, none
Criteria(T) ==
    { Kw("pk", k) : k \in 1..MaxPk } \cup { Kw(FkField(T), v) : v \in 1..MaxRef }
        \cup { EmptyDict }

\* the criteria callers pass to filter(): those of get(), and the ones naming
\* both fields
FilterCriteria(T) ==
    Criteria(T) \cup
        { [n \in {"pk", FkField(T)} |-> IF n = "pk" THEN k ELSE v] :
            k \in 1..MaxPk, v \in 1..MaxRef }

\* the defaults callers pass to get_or_create(): none, or the foreign key
Defaults(T) == { EmptyDict, Kw(FkField(T), 1) }

\* CacheManager._instance_to_dict
InstanceToDictStale(T, instance) ==
    [f \in ConcreteFields(T) |-> IF f = "id" THEN None ELSE GetAttr(instance, f)]

instance_to_dict(T, instance) ==
    [f \in ConcreteFields(T) |-> GetAttr(instance, f)]

\* a conversion that leaves the primary key out of the instance
DictToInstanceFresh(T, instance_dict) ==
    Model(T, [f \in (DOMAIN instance_dict) \ {"id"} |-> instance_dict[f]])

\* CacheManager._dict_to_instance
dict_to_instance(T, instance_dict) == Model(T, instance_dict)

\* ------------------------------------------------------------------- state
VARIABLES
    cache,      \* the Store Backend (django cache): store name -> dict, set keys only
    locks,      \* the Lock Service: lock name -> the processes inside `with lock(name)`
    db,         \* primary keys of the Karaoke rows in the database
    receivers,  \* receivers of the pre_delete signal, in registration order
    managers,   \* the `cache` attribute of each defined class: class name -> manager
    pc,         \* where each process stands in its call
    op,         \* the public operation a process is running
    mgr,        \* the record type whose manager is executing for the process
    call,       \* the manager method that is inside _access_store
    inst,       \* the instance the method works on (the caller's object)
    store,      \* the dict yielded by _access_store to the process
    kwargs,     \* the criteria of a get(), a filter() or a get_or_create()
    defaults,   \* the defaults argument of a get_or_create()
    exc,        \* the exception raised by the wrapped block, if any
    ret,        \* how the public operation ended
    sig,        \* the pre_delete dispatch in progress: instance and receivers left
    ran,        \* dispatch_uids of the handles called during the operation
    solo,       \* no other call was running or has started since this call began
    prev,       \* the get_or_create that ended just before this call began
    nops        \* public operations started so far

shared == <<cache, locks, db, receivers, managers>>
vars == <<cache, locks, db, receivers, managers, pc, op, mgr, call, inst, store, kwargs,
          defaults, exc, ret, sig, ran, solo, prev, nops>>

NoResult == [kind |-> "none", value |-> EmptyDict]
Returned(value) == [kind |-> "return", value |-> value]
Raised(kind) == [kind |-> kind, value |-> EmptyDict]
NoSignal == [instance |-> None, todo |-> << >>]
NoCall == [op |-> "none", kwargs |-> EmptyDict, ret |-> NoResult]

\* ----------------------------------------------------------- store backend
\* cache.get(self._store_name, {})
cache_get(name) == IF name \in DOMAIN cache THEN cache[name] ELSE EmptyDict

\* cache.set(self._store_name, store)
cache_set(name, value) ==
    [n \in (DOMAIN cache) \cup {name} |-> IF n = name THEN value ELSE cache[n]]

\* the collection of a record type as the backend holds it
Collection(T) == cache_get(StoreName(T))

\* ------------------------------------------------------------- lock service
\* internal.lock.lock(name): a named mutex, taken on entering the `with`
\* statement and given back on leaving it, however the block ends
lock_free(name) == locks[name] = {}

lock_acquire(name, p) == locks' = [locks EXCEPT ![name] = @ \cup {p}]

lock_release(name, p) == locks' = [locks EXCEPT ![name] = @ \ {p}]

\* ---------------------------------------------------------------- registry
\* CacheManager._manage_on_delete_fields, for the one foreign key of T:
\* the handle subscribed with @receiver(pre_delete, sender=..., dispatch_uid=...)
\* self is the manager the handle closes over, by its id
FieldHandle(T, f, on_delete, id) ==
    [uid |-> FieldUid(T, f), sender |-> Remote(T, f), manager |-> T,
     on_delete |-> on_delete, self |-> id]

\* the handle of the first foreign key of T
Handle(T, on_delete, id) == FieldHandle(T, FkField(T), on_delete, id)

\* the handles pre_delete.send(sender=...) calls, in registration order
LiveReceivers(sender) ==
    LET Pick(r) == r.sender = sender IN SelectSeq(receivers, Pick)

\* Signal.connect with a dispatch_uid: a receiver whose dispatch_uid and
\* sender are already connected is not connected again
connect(rs, h) ==
    IF \E i \in 1..Len(rs) : rs[i].uid = h.uid /\ rs[i].sender = h.sender
    THEN rs
    ELSE Append(rs, h)

\* a class body that keeps the attribute `cache` it inherits from its parent
ManagerOfParent(T, id, funcs) ==
    [id |-> 1, model |-> "CacheModel", name |-> "CacheModel",
     store_name |-> StoreName("CacheModel"), on_delete_funcs |-> EmptyDict]

\* CacheManager() connected to the class named T, lines 14-28 and 65; id
\* tells the manager objects apart, funcs is _on_delete_funcs
Manager(T, id, funcs) ==
    [id |-> id, model |-> T, name |-> T, store_name |-> StoreName(T),
     on_delete_funcs |-> funcs]

\* the abstract base class CacheModel, defined when the module is loaded:
\* it has no foreign key, and its metaclass gives it a manager too
BaseOnly == [T \in {"CacheModel"} |-> Manager("CacheModel", 1, EmptyDict)]

\* values a foreign key may carry as cache_on_delete: the two policy
\* functions of the module, and a value that is no function
OnDelete == {"CASCADE", "DO_NOTHING", "notcallable"}

\* a check that lets every value through
CallableAny(x) == TRUE

\* callable(on_delete), line 48
callable(x) == x \in {"CASCADE", "DO_NOTHING"}

\* -------------------------------------------------------------------- Init
\* the state once the record types are declared, Player's foreign key with
\* the on-delete policy `policy`
Declared(policy) ==
    /\ cache = << >>
    /\ locks = [n \in {StoreName(T) : T \in CacheTypes} |-> {}]
    /\ db = 1..MaxRef
    /\ receivers = << Handle("Player", policy, 2), Handle("Item", "CASCADE", 3) >>
    /\ managers = [T \in {"CacheModel", "Player", "Item"} |->
                      CASE T = "CacheModel" -> Manager(T, 1, EmptyDict)
                        [] T = "Player" ->
                              Manager(T, 2, Kw(FkField(T), Handle(T, policy, 2)))
                        [] T = "Item" ->
                              Manager(T, 3, Kw(FkField(T), Handle(T, "CASCADE", 3)))]
    /\ pc = [p \in Procs |-> "idle"]
    /\ op = [p \in Procs |-> "none"]
    /\ mgr = [p \in Procs |-> "none"]
    /\ call = [p \in Procs |-> "none"]
    /\ inst = [p \in Procs |-> EmptyDict]
    /\ store = [p \in Procs |-> EmptyDict]
    /\ kwargs = [p \in Procs |-> EmptyDict]
    /\ defaults = [p \in Procs |-> EmptyDict]
    /\ exc = [p \in Procs |-> "none"]
    /\ ret = [p \in Procs |-> NoResult]
    /\ sig = [p \in Procs |-> NoSignal]
    /\ ran = [p \in Procs |-> {}]
    /\ solo = [p \in Procs |-> FALSE]
    /\ prev = [p \in Procs |-> NoCall]
    /\ nops = 0

Init == Declared("CASCADE")

InitAnyPolicy == \E policy \in {"CASCADE", "DO_NOTHING"} : Declared(policy)

\* ------------------------------------------------------- starting a call
Busy(p) == pc[p] \notin {"idle", "done"}

\* the processes are interchangeable: the first call of a behaviour is p1's
MayStart(p) == ~Busy(p) /\ nops < MaxOps /\ (nops = 0 => p = "p1")

\* processes inside or entering _access_store of the manager of T
ActiveOn(T) == {q \in Procs : pc[q] \in {"lock", "get", "set", "unlock"} /\ mgr[q] = T}

\* get_or_create calls on T that have not found or created their instance yet
Looking(T) == {q \in ActiveOn(T) : op[q] = "get_or_create" /\ call[q] = "all"}

\* the instance such a call creates when it finds none
ToCreate(q) == Model(mgr[q], Update(kwargs[q], defaults[q]))

\* saves of T that will still draw a new primary key
PendingNew(T) ==
    {q \in ActiveOn(T) : call[q] = "save" /\ pc[q] \in {"lock", "get"}
                          /\ inst[q]["id"] = None}
        \cup {q \in Looking(T) : ToCreate(q)["id"] = None}

\* keys of T that are stored or on their way to the store
KnownKeys(T) ==
    (DOMAIN Collection(T))
        \cup UNION {DOMAIN store[q] : q \in ActiveOn(T)}
        \cup {inst[q]["id"] : q \in {r \in ActiveOn(T) : call[r] = "save"}}
        \cup {ToCreate(q)["id"] : q \in Looking(T)}

\* the call keeps every key of T within 1..MaxPk
KeyRoom(T, instance) ==
    LET known == (KnownKeys(T) \cup {instance["id"], 0}) \ {None}
        fresh == Cardinality(PendingNew(T)) + (IF instance["id"] = None THEN 1 ELSE 0)
    IN  Max(known) + fresh <= MaxPk

\* the call that ended just before a call of p begins, when both are
\* get_or_create calls and nothing ran beside the first
Preceding(p, o) ==
    LET last == {q \in Procs : pc[q] = "done" /\ solo[q] /\ op[q] = "get_or_create"}
    IN  IF o = "get_or_create" /\ last # {}
        THEN LET q == CHOOSE r \in last : TRUE
             IN  [op |-> op[q], kwargs |-> kwargs[q], ret |-> ret[q]]
        ELSE NoCall

\* a process starts the public operation o, on the manager of T
Start(p, o, T, c, instance, kw, dflt) ==
    /\ MayStart(p)
    /\ T \in DOMAIN managers
    /\ nops' = nops + 1
    /\ pc' = [pc EXCEPT ![p] = "lock"]
    /\ op' = [op EXCEPT ![p] = o]
    /\ mgr' = [mgr EXCEPT ![p] = T]
    /\ call' = [call EXCEPT ![p] = c]
    /\ inst' = [inst EXCEPT ![p] = instance]
    /\ kwargs' = [kwargs EXCEPT ![p] = kw]
    /\ defaults' = [defaults EXCEPT ![p] = dflt]
    /\ store' = [store EXCEPT ![p] = EmptyDict]
    /\ exc' = [exc EXCEPT ![p] = "none"]
    /\ ret' = [ret EXCEPT ![p] = NoResult]
    /\ sig' = [sig EXCEPT ![p] = NoSignal]
    /\ ran' = [ran EXCEPT ![p] = {}]
    /\ solo' = [q \in Procs |-> q = p /\ \A r \in Procs \ {p} : ~Busy(r)]
    /\ prev' = [prev EXCEPT ![p] = Preceding(p, o)]
    /\ UNCHANGED shared

\* a call without defaults
Begin(p, o, T, c, instance, kw) == Start(p, o, T, c, instance, kw, EmptyDict)

\* CacheManager.create: obj = self.model(**kwargs); obj.save()
create(p, T) ==
    /\ MayStart(p)
    /\ \E v \in 1..MaxRef :
        LET obj == Model(T, Kw(FkField(T), v)) IN
        /\ KeyRoom(T, obj)
        /\ Begin(p, "create", T, "save", obj, EmptyDict)

\* CacheModel.save -> CacheManager.save, up to `with self._access_store()`
\* (field.pre_save changes no field of these types)
save(p, T) ==
    /\ MayStart(p)
    /\ \E instance \in Instances(T) :
        /\ KeyRoom(T, instance)
        /\ Begin(p, "save", T, "save", instance, EmptyDict)

\* CacheModel.delete -> CacheManager.delete, up to `with self._access_store()`
delete(p, T) ==
    \E instance \in Deletable(T) :
        Begin(p, "delete", T, "delete", instance, EmptyDict)

\* CacheManager.get -> filter -> all, up to `with self._access_store()`
get(p, T) ==
    \E kw \in Criteria(T) :
        Begin(p, "get", T, "all", EmptyDict, kw)

\* CacheManager.get_or_create -> get -> filter -> all, up to
\* `with self._access_store()`
get_or_create(p, T) ==
    /\ MayStart(p)
    /\ \E kw \in Criteria(T) : \E dflt \in Defaults(T) :
        /\ KeyRoom(T, Model(T, Update(kw, dflt)))
        /\ Start(p, "get_or_create", T, "all", EmptyDict, kw, dflt)

\* CacheManager.all, up to `with self._access_store()`
all_call(p, T) == Begin(p, "all", T, "all", EmptyDict, EmptyDict)

\* CacheManager.count -> all, up to `with self._access_store()`
count(p, T) == Begin(p, "count", T, "all", EmptyDict, EmptyDict)

\* CacheManager.filter -> all, up to `with self._access_store()`
filter_call(p, T) ==
    \E kw \in FilterCriteria(T) :
        Begin(p, "filter", T, "all", EmptyDict, kw)

\* ------------------------------------------------------------ _access_store
\* line 77, `with lock(self._store_name)`, entered without the lock
AccessStoreNoLock(p) ==
    /\ pc[p] = "lock"
    /\ lock_acquire(StoreName(mgr[p]), p)
    /\ pc' = [pc EXCEPT ![p] = "get"]
    /\ UNCHANGED <<mgr, call, inst, store, kwargs, defaults, exc, ret, sig, ran, op, solo, prev, nops, receivers, managers>>
    /\ UNCHANGED <<cache, db>>

\* line 77 with one lock for every manager: wait until no lock is held
AccessStoreLockGlobal(p) ==
    /\ pc[p] = "lock"
    /\ \A T \in CacheTypes : lock_free(StoreName(T))
    /\ lock_acquire(StoreName(mgr[p]), p)
    /\ pc' = [pc EXCEPT ![p] = "get"]
    /\ UNCHANGED <<mgr, call, inst, store, kwargs, defaults, exc, ret, sig, ran, op, solo, prev, nops, receivers, managers>>
    /\ UNCHANGED <<cache, db>>

\* line 77, `with lock(self._store_name)`: wait for the lock and take it
AccessStoreLock(p) ==
    /\ pc[p] = "lock"
    /\ lock_free(StoreName(mgr[p]))
    /\ lock_acquire(StoreName(mgr[p]), p)
    /\ pc' = [pc EXCEPT ![p] = "get"]
    /\ UNCHANGED <<mgr, call, inst, store, kwargs, defaults, exc, ret, sig, ran, op, solo, prev, nops, receivers, managers>>
    /\ UNCHANGED <<cache, db>>

\* line 177: max(list(store.keys()) or [0]) + 1
NewPkByLen(s) == Cardinality(DOMAIN s) + 1

\* a key generator that leaves a gap after the largest key
NewPkSkip(s) == Max(IF DOMAIN s # {} THEN DOMAIN s ELSE {0}) + 2

NewPk(s) == Max(IF DOMAIN s # {} THEN DOMAIN s ELSE {0}) + 1

\* the block of save drawing a new primary key for every instance
SaveBlockFresh(p) ==
    /\ pc[p] = "get" /\ call[p] = "save"
    /\ LET s == cache_get(StoreName(mgr[p]))
           pk == NewPk(s)
           instance == [inst[p] EXCEPT !["id"] = pk]
       IN  /\ inst' = [inst EXCEPT ![p] = instance]
           /\ store' = [store EXCEPT ![p] =
                           DictSet(s, pk, instance_to_dict(mgr[p], instance))]
    /\ pc' = [pc EXCEPT ![p] = "set"]
    /\ UNCHANGED <<mgr, call, kwargs, defaults, exc, ret, sig, ran, op, solo, prev, nops, receivers, managers>>
    /\ UNCHANGED <<cache, locks, db>>

\* the block of save writing one field into the record already stored
\* under the key, the other fields of that record left as they are
SaveBlockMerge(p) ==
    /\ pc[p] = "get" /\ call[p] = "save"
    /\ LET s == cache_get(StoreName(mgr[p]))
           pk == IF inst[p]["id"] = None THEN NewPk(s) ELSE inst[p]["id"]
           instance == [inst[p] EXCEPT !["id"] = pk]
           f == FkField(mgr[p])
       IN  /\ inst' = [inst EXCEPT ![p] = instance]
           /\ store' = [store EXCEPT ![p] =
                           DictSet(s, pk,
                               IF pk \in DOMAIN s
                               THEN [s[pk] EXCEPT ![f] = instance[f]]
                               ELSE instance_to_dict(mgr[p], instance))]
    /\ pc' = [pc EXCEPT ![p] = "set"]
    /\ UNCHANGED <<mgr, call, kwargs, defaults, exc, ret, sig, ran, op, solo, prev, nops, receivers, managers>>
    /\ UNCHANGED <<cache, locks, db>>

\* lines 78-79 and 176-180: store = cache.get(...), then the block of save
SaveBlock(p) ==
    /\ pc[p] = "get" /\ call[p] = "save"
    /\ LET s == cache_get(StoreName(mgr[p]))
           pk == IF inst[p]["id"] = None THEN NewPk(s) ELSE inst[p]["id"]
           instance == [inst[p] EXCEPT !["id"] = pk]
       IN  /\ inst' = [inst EXCEPT ![p] = instance]
           /\ store' = [store EXCEPT ![p] =
                           DictSet(s, pk, instance_to_dict(mgr[p], instance))]
    /\ pc' = [pc EXCEPT ![p] = "set"]
    /\ UNCHANGED <<mgr, call, kwargs, defaults, exc, ret, sig, ran, op, solo, prev, nops, receivers, managers>>
    /\ UNCHANGED <<cache, locks, db>>

\* the block of delete dropping the key if it is there: store.pop(pk, None)
DeleteBlockQuiet(p) ==
    /\ pc[p] = "get" /\ call[p] = "delete"
    /\ store' = [store EXCEPT ![p] =
                    DictDel(cache_get(StoreName(mgr[p])), inst[p]["id"])]
    /\ pc' = [pc EXCEPT ![p] = "set"]
    /\ UNCHANGED <<mgr, call, inst, kwargs, defaults, exc, ret, sig, ran, op, solo, prev, nops, receivers, managers>>
    /\ UNCHANGED <<cache, locks, db>>

\* _access_store writing the store back in a finally clause: the block of
\* delete has raised and the store read is written all the same
DeleteBlockWrites(p) ==
    /\ pc[p] = "get" /\ call[p] = "delete"
    /\ LET s == cache_get(StoreName(mgr[p])) IN
       IF inst[p]["id"] \in DOMAIN s
       THEN /\ store' = [store EXCEPT ![p] = DictDel(s, inst[p]["id"])]
            /\ pc' = [pc EXCEPT ![p] = "set"]
            /\ UNCHANGED exc
       ELSE /\ store' = [store EXCEPT ![p] = s]
            /\ pc' = [pc EXCEPT ![p] = "set"]
            /\ exc' = [exc EXCEPT ![p] = "DoesNotExist"]
    /\ UNCHANGED <<mgr, call, inst, kwargs, defaults, ret, sig, ran, op, solo, prev, nops, receivers, managers>>
    /\ UNCHANGED <<cache, locks, db>>

\* lines 78-79 and 193-199: store = cache.get(...), then the block of delete;
\* the KeyError becomes DoesNotExist, which leaves _access_store at the yield
DeleteBlock(p) ==
    /\ pc[p] = "get" /\ call[p] = "delete"
    /\ LET s == cache_get(StoreName(mgr[p])) IN
       IF inst[p]["id"] \in DOMAIN s
       THEN /\ store' = [store EXCEPT ![p] = DictDel(s, inst[p]["id"])]
            /\ pc' = [pc EXCEPT ![p] = "set"]
            /\ UNCHANGED exc
       ELSE /\ store' = [store EXCEPT ![p] = s]
            /\ pc' = [pc EXCEPT ![p] = "unlock"]
            /\ exc' = [exc EXCEPT ![p] = "DoesNotExist"]
    /\ UNCHANGED <<mgr, call, inst, kwargs, defaults, ret, sig, ran, op, solo, prev, nops, receivers, managers>>
    /\ UNCHANGED <<cache, locks, db>>

\* lines 78-79 and 98-99: store = cache.get(...), then the block of all
AllBlock(p) ==
    /\ pc[p] = "get" /\ call[p] = "all"
    /\ store' = [store EXCEPT ![p] = cache_get(StoreName(mgr[p]))]
    /\ pc' = [pc EXCEPT ![p] = "set"]
    /\ UNCHANGED <<mgr, call, inst, kwargs, defaults, exc, ret, sig, ran, op, solo, prev, nops, receivers, managers>>
    /\ UNCHANGED <<cache, locks, db>>

\* leaving the block without cache.set: the yielded store is dropped
AccessStoreNoSet(p) ==
    /\ pc[p] = "set"
    /\ pc' = [pc EXCEPT ![p] = "unlock"]
    /\ UNCHANGED <<mgr, call, inst, store, kwargs, defaults, exc, ret, sig, ran, op, solo, prev, nops, receivers, managers>>
    /\ UNCHANGED <<cache, locks, db>>

\* line 80: cache.set(self._store_name, store), when the block ended normally
AccessStoreSet(p) ==
    /\ pc[p] = "set"
    /\ cache' = cache_set(StoreName(mgr[p]), store[p])
    /\ pc' = [pc EXCEPT ![p] = "unlock"]
    /\ UNCHANGED <<mgr, call, inst, store, kwargs, defaults, exc, ret, sig, ran, op, solo, prev, nops, receivers, managers>>
    /\ UNCHANGED <<locks, db>>

\* ------------------------------------------------------------------ queries
\* CacheManager.all: the instances of the yielded store, by key
all(T, s) == [k \in DOMAIN s |-> dict_to_instance(T, s[k])]

\* the test of CacheManager.filter on one instance
MatchesAny(obj, kw) == \E name \in DOMAIN kw : GetAttr(obj, name) = kw[name]

Matches(obj, kw) == \A name \in DOMAIN kw : GetAttr(obj, name) = kw[name]

\* CacheManager.filter, on the result of all()
filter(objs, kw) ==
    [k \in {x \in DOMAIN objs : Matches(objs[x], kw)} |-> objs[k]]

\* CacheManager.get, on the result of filter(): lines 133-142
GetFirst(objects) ==
    IF DOMAIN objects # {}
    THEN Returned(objects[Max(DOMAIN objects)])
    ELSE Raised("DoesNotExist")

GetOutcome(objects) ==
    IF Cardinality(DOMAIN objects) = 1
    THEN Returned(objects[CHOOSE k \in DOMAIN objects : TRUE])
    ELSE IF Cardinality(DOMAIN objects) = 0
    THEN Raised("DoesNotExist")
    ELSE Raised("MultipleObjectsReturned")

\* ---------------------------------------------------- leaving _access_store
\* leaving without giving the lock back when the block has raised
LeaveHeldOnError(p) ==
    /\ IF exc[p] = "none" THEN lock_release(StoreName(mgr[p]), p) ELSE UNCHANGED locks
    /\ store' = [store EXCEPT ![p] = EmptyDict]
    /\ exc' = [exc EXCEPT ![p] = "none"]

\* the method is over: its locals are dropped
Leave(p) ==
    /\ lock_release(StoreName(mgr[p]), p)
    /\ store' = [store EXCEPT ![p] = EmptyDict]
    /\ exc' = [exc EXCEPT ![p] = "none"]

\* create/save return: the lock is released, obj (with its pk) is the caller's
ReturnSave(p) ==
    /\ pc[p] = "unlock" /\ call[p] = "save" /\ op[p] \in {"create", "save"}
    /\ Leave(p)
    /\ ret' = [ret EXCEPT ![p] = Returned(inst[p])]
    /\ pc' = [pc EXCEPT ![p] = "done"]
    /\ UNCHANGED <<mgr, call, inst, kwargs, defaults, sig, ran, op, solo, prev, nops, receivers, managers>>
    /\ UNCHANGED <<cache, db>>

\* CacheModel.delete returns, or DoesNotExist reaches the caller
ReturnDelete(p) ==
    /\ pc[p] = "unlock" /\ call[p] = "delete" /\ op[p] = "delete"
    /\ Leave(p)
    /\ ret' = [ret EXCEPT ![p] =
                 IF exc[p] = "none" THEN Returned(EmptyDict) ELSE Raised(exc[p])]
    /\ pc' = [pc EXCEPT ![p] = "done"]
    /\ UNCHANGED <<mgr, call, inst, kwargs, defaults, sig, ran, op, solo, prev, nops, receivers, managers>>
    /\ UNCHANGED <<cache, db>>

\* all() returns its list to the caller
ReturnAll(p) ==
    /\ pc[p] = "unlock" /\ call[p] = "all" /\ op[p] = "all"
    /\ Leave(p)
    /\ ret' = [ret EXCEPT ![p] = Returned(all(mgr[p], store[p]))]
    /\ pc' = [pc EXCEPT ![p] = "done"]
    /\ UNCHANGED <<mgr, call, inst, kwargs, defaults, sig, ran, op, solo, prev, nops, receivers, managers>>
    /\ UNCHANGED <<cache, db>>

\* all() returns to count, which returns len(self.all())
ReturnCount(p) ==
    /\ pc[p] = "unlock" /\ call[p] = "all" /\ op[p] = "count"
    /\ Leave(p)
    /\ ret' = [ret EXCEPT ![p] =
                 Returned(Cardinality(DOMAIN all(mgr[p], store[p])))]
    /\ pc' = [pc EXCEPT ![p] = "done"]
    /\ UNCHANGED <<mgr, call, inst, kwargs, defaults, sig, ran, op, solo, prev, nops, receivers, managers>>
    /\ UNCHANGED <<cache, db>>

\* all() returns to filter, which returns the instances that pass the test
ReturnFilter(p) ==
    /\ pc[p] = "unlock" /\ call[p] = "all" /\ op[p] = "filter"
    /\ Leave(p)
    /\ ret' = [ret EXCEPT ![p] =
                 Returned(filter(all(mgr[p], store[p]), kwargs[p]))]
    /\ pc' = [pc EXCEPT ![p] = "done"]
    /\ UNCHANGED <<mgr, call, inst, kwargs, defaults, sig, ran, op, solo, prev, nops, receivers, managers>>
    /\ UNCHANGED <<cache, db>>

\* all() returns to filter, filter to get, get to the caller
ReturnGet(p) ==
    /\ pc[p] = "unlock" /\ call[p] = "all" /\ op[p] = "get"
    /\ Leave(p)
    /\ ret' = [ret EXCEPT ![p] =
                 GetOutcome(filter(all(mgr[p], store[p]), kwargs[p]))]
    /\ pc' = [pc EXCEPT ![p] = "done"]
    /\ UNCHANGED <<mgr, call, inst, kwargs, defaults, sig, ran, op, solo, prev, nops, receivers, managers>>
    /\ UNCHANGED <<cache, db>>

\* the value get_or_create returns: the instance, and whether it was created
Pair(instance, created) == [instance |-> instance, created |-> created]

\* get_or_create, lines 154-162, with every failure of get() taken for
\* DoesNotExist
GocGotCreates(p) ==
    /\ pc[p] = "unlock" /\ call[p] = "all" /\ op[p] = "get_or_create"
    /\ Leave(p)
    /\ LET got == GetOutcome(filter(all(mgr[p], store[p]), kwargs[p])) IN
       IF got.kind = "return"
       THEN /\ ret' = [ret EXCEPT ![p] = Returned(Pair(got.value, FALSE))]
            /\ pc' = [pc EXCEPT ![p] = "done"]
            /\ UNCHANGED <<inst, call>>
       ELSE /\ inst' = [inst EXCEPT ![p] =
                          Model(mgr[p], Update(kwargs[p], defaults[p]))]
            /\ call' = [call EXCEPT ![p] = "save"]
            /\ pc' = [pc EXCEPT ![p] = "lock"]
            /\ UNCHANGED ret
    /\ UNCHANGED <<mgr, kwargs, defaults, sig, ran, op, solo, prev, nops, receivers, managers>>
    /\ UNCHANGED <<cache, db>>

\* get_or_create entering create() inside the block of its lookup, the lock
\* still held
GocGotHolding(p) ==
    /\ pc[p] = "unlock" /\ call[p] = "all" /\ op[p] = "get_or_create"
    /\ store' = [store EXCEPT ![p] = EmptyDict]
    /\ exc' = [exc EXCEPT ![p] = "none"]
    /\ LET got == GetOutcome(filter(all(mgr[p], store[p]), kwargs[p])) IN
       CASE got.kind = "return" ->
               /\ lock_release(StoreName(mgr[p]), p)
               /\ ret' = [ret EXCEPT ![p] = Returned(Pair(got.value, FALSE))]
               /\ pc' = [pc EXCEPT ![p] = "done"]
               /\ UNCHANGED <<inst, call>>
         [] got.kind = "DoesNotExist" ->
               /\ inst' = [inst EXCEPT ![p] =
                             Model(mgr[p], Update(kwargs[p], defaults[p]))]
               /\ call' = [call EXCEPT ![p] = "save"]
               /\ pc' = [pc EXCEPT ![p] = "lock"]
               /\ UNCHANGED <<ret, locks>>
         [] OTHER ->
               /\ lock_release(StoreName(mgr[p]), p)
               /\ ret' = [ret EXCEPT ![p] = got]
               /\ pc' = [pc EXCEPT ![p] = "done"]
               /\ UNCHANGED <<inst, call>>
    /\ UNCHANGED <<mgr, kwargs, defaults, sig, ran, op, solo, prev, nops, receivers, managers>>
    /\ UNCHANGED <<cache, db>>

\* get_or_create, lines 154-162: get() returned or raised.  The instance
\* found is returned with False; on DoesNotExist the defaults are merged
\* into the criteria and create() is entered (kwargs keeps the caller's
\* criteria, the merged dict is the argument of create); any other
\* exception reaches the caller
GocGot(p) ==
    /\ pc[p] = "unlock" /\ call[p] = "all" /\ op[p] = "get_or_create"
    /\ Leave(p)
    /\ LET got == GetOutcome(filter(all(mgr[p], store[p]), kwargs[p])) IN
       CASE got.kind = "return" ->
               /\ ret' = [ret EXCEPT ![p] = Returned(Pair(got.value, FALSE))]
               /\ pc' = [pc EXCEPT ![p] = "done"]
               /\ UNCHANGED <<inst, call>>
         [] got.kind = "DoesNotExist" ->
               /\ inst' = [inst EXCEPT ![p] =
                             Model(mgr[p], Update(kwargs[p], defaults[p]))]
               /\ call' = [call EXCEPT ![p] = "save"]
               /\ pc' = [pc EXCEPT ![p] = "lock"]
               /\ UNCHANGED ret
         [] OTHER ->
               /\ ret' = [ret EXCEPT ![p] = got]
               /\ pc' = [pc EXCEPT ![p] = "done"]
               /\ UNCHANGED <<inst, call>>
    /\ UNCHANGED <<mgr, kwargs, defaults, sig, ran, op, solo, prev, nops, receivers, managers>>
    /\ UNCHANGED <<cache, db>>

\* get_or_create, line 162: create() returned, the instance is returned
\* with True
GocCreated(p) ==
    /\ pc[p] = "unlock" /\ call[p] = "save" /\ op[p] = "get_or_create"
    /\ Leave(p)
    /\ ret' = [ret EXCEPT ![p] = Returned(Pair(inst[p], TRUE))]
    /\ pc' = [pc EXCEPT ![p] = "done"]
    /\ UNCHANGED <<mgr, call, inst, kwargs, defaults, sig, ran, op, solo, prev, nops, receivers, managers>>
    /\ UNCHANGED <<cache, db>>

\* -------------------------------------------- the caller's returned objects
\* the instances the caller of p received from create, get or all: objects
\* built by self.model(...) for this caller (lines 88 and 224)
Held(p) ==
    IF pc[p] # "done" \/ ret[p].kind # "return" THEN {}
    ELSE IF op[p] \in {"create", "get"} THEN {ret[p].value}
    ELSE IF op[p] = "all" THEN {ret[p].value[k] : k \in DOMAIN ret[p].value}
    ELSE {}

\* the result of p with the field f of its instance numbered k set to v
WithField(p, k, f, v) ==
    IF op[p] = "all"
    THEN [ret[p] EXCEPT !.value[k][f] = v]
    ELSE [ret[p] EXCEPT !.value[f] = v]

\* an assignment that reaches the stored dict of the instance too
SetAttrShared(p) ==
    \E obj \in Held(p) : \E v \in 1..MaxRef :
        LET T == mgr[p]
            f == FkField(T)
            k == obj["id"]
        IN  /\ obj[f] # v
            /\ ret' = [ret EXCEPT ![p] = WithField(p, k, f, v)]
            /\ cache' = IF k \in DOMAIN Collection(T)
                         THEN cache_set(StoreName(T),
                                        [Collection(T) EXCEPT ![k][f] = v])
                         ELSE cache
            /\ UNCHANGED <<locks, db, receivers, managers, pc, op, mgr, call, inst, store,
                           kwargs, defaults, exc, sig, ran, solo, prev, nops>>

\* the caller assigns a field of an instance it received: instance.f = v.
\* The instance is the caller's own object, nothing else refers to it
SetAttr(p) ==
    \E obj \in Held(p) : \E v \in 1..MaxRef :
        LET f == FkField(mgr[p])
            k == obj["id"]
        IN  /\ obj[f] # v
            /\ ret' = [ret EXCEPT ![p] = WithField(p, k, f, v)]
            /\ UNCHANGED <<cache, locks, db, receivers, managers, pc, op, mgr, call, inst,
                           store, kwargs, defaults, exc, sig, ran, solo, prev, nops>>

\* CacheModel.save on an instance the caller received, up to
\* `with self._access_store()`
save_returned(p) ==
    /\ MayStart(p)
    /\ \E obj \in Held(p) :
        /\ KeyRoom(mgr[p], obj)
        /\ Begin(p, "save", mgr[p], "save", obj, EmptyDict)

\* ------------------------------------------------- deleting a database row
\* the handles subscribed to post_delete: the row is gone when they are sent
DbDeletePost(p) ==
    \E k \in db :
        /\ MayStart(p)
        /\ nops' = nops + 1
        /\ pc' = [pc EXCEPT ![p] = "signal"]
        /\ op' = [op EXCEPT ![p] = "db_delete"]
        /\ sig' = [sig EXCEPT ![p] =
                     [instance |-> k, todo |-> LiveReceivers("Karaoke")]]
        /\ db' = db \ {k}
        /\ mgr' = [mgr EXCEPT ![p] = "none"]
        /\ call' = [call EXCEPT ![p] = "none"]
        /\ inst' = [inst EXCEPT ![p] = EmptyDict]
        /\ kwargs' = [kwargs EXCEPT ![p] = EmptyDict]
        /\ defaults' = [defaults EXCEPT ![p] = EmptyDict]
        /\ store' = [store EXCEPT ![p] = EmptyDict]
        /\ exc' = [exc EXCEPT ![p] = "none"]
        /\ ret' = [ret EXCEPT ![p] = NoResult]
        /\ ran' = [ran EXCEPT ![p] = {}]
        /\ solo' = [q \in Procs |-> q = p /\ \A r \in Procs \ {p} : ~Busy(r)]
        /\ prev' = [prev EXCEPT ![p] = NoCall]
        /\ UNCHANGED <<cache, locks, receivers, managers>>

\* django's Model.delete() of the Karaoke row k, up to pre_delete.send(
\* sender=Karaoke, instance=...): the handles to call are fixed at the send
db_delete(p) ==
    \E k \in db :
        /\ MayStart(p)
        /\ nops' = nops + 1
        /\ pc' = [pc EXCEPT ![p] = "signal"]
        /\ op' = [op EXCEPT ![p] = "db_delete"]
        /\ sig' = [sig EXCEPT ![p] =
                     [instance |-> k, todo |-> LiveReceivers("Karaoke")]]
        /\ mgr' = [mgr EXCEPT ![p] = "none"]
        /\ call' = [call EXCEPT ![p] = "none"]
        /\ inst' = [inst EXCEPT ![p] = EmptyDict]
        /\ kwargs' = [kwargs EXCEPT ![p] = EmptyDict]
        /\ defaults' = [defaults EXCEPT ![p] = EmptyDict]
        /\ store' = [store EXCEPT ![p] = EmptyDict]
        /\ exc' = [exc EXCEPT ![p] = "none"]
        /\ ret' = [ret EXCEPT ![p] = NoResult]
        /\ ran' = [ran EXCEPT ![p] = {}]
        /\ solo' = [q \in Procs |-> q = p /\ \A r \in Procs \ {p} : ~Busy(r)]
        /\ prev' = [prev EXCEPT ![p] = NoCall]
        /\ UNCHANGED shared

\* the handle is over: the signal goes on to the next receiver
HandleDone(p) ==
    /\ sig' = [sig EXCEPT ![p].todo = Tail(@)]
    /\ pc' = [pc EXCEPT ![p] = "signal"]
    /\ mgr' = [mgr EXCEPT ![p] = "none"]
    /\ call' = [call EXCEPT ![p] = "none"]
    /\ inst' = [inst EXCEPT ![p] = EmptyDict]
    /\ kwargs' = [kwargs EXCEPT ![p] = EmptyDict]

\* CASCADE(instance_to_delete, manager), lines 264-268, up to the
\* _access_store of manager.get(pk=instance_to_delete.pk)
CASCADE(p) ==
    IF sig[p].instance = None
    THEN HandleDone(p)
    ELSE /\ mgr' = [mgr EXCEPT ![p] = Head(sig[p].todo).manager]
         /\ call' = [call EXCEPT ![p] = "all"]
         /\ kwargs' = [kwargs EXCEPT ![p] = Kw("pk", sig[p].instance)]
         /\ pc' = [pc EXCEPT ![p] = "lock"]
         /\ UNCHANGED <<sig, inst>>

\* the no-action policy bound to the cascading function
DoNothingCascades(p) == CASCADE(p)

\* DO_NOTHING(instance_to_delete, manager), lines 257-259: pass
DO_NOTHING(p) == HandleDone(p)

\* handle(sender, **kwargs), lines 60-62: on_delete(instance, self)
handle(p) ==
    /\ pc[p] = "signal"
    /\ sig[p].todo # << >>
    /\ ran' = [ran EXCEPT ![p] = @ \cup {Head(sig[p].todo).uid}]
    /\ \/ Head(sig[p].todo).on_delete = "DO_NOTHING" /\ DO_NOTHING(p)
       \/ Head(sig[p].todo).on_delete = "CASCADE" /\ CASCADE(p)
    /\ UNCHANGED <<store, defaults, exc, ret, op, solo, prev, nops, shared>>

\* CASCADE without its except clause: DoesNotExist leaves the handle
CascadeGotRaises(p) ==
    /\ pc[p] = "unlock" /\ call[p] = "all" /\ op[p] = "db_delete"
    /\ Leave(p)
    /\ LET got == GetOutcome(filter(all(mgr[p], store[p]), kwargs[p])) IN
       IF got.kind = "return"
       THEN /\ inst' = [inst EXCEPT ![p] = got.value]
            /\ call' = [call EXCEPT ![p] = "delete"]
            /\ kwargs' = [kwargs EXCEPT ![p] = EmptyDict]
            /\ pc' = [pc EXCEPT ![p] = "lock"]
            /\ UNCHANGED <<sig, mgr, ret>>
       ELSE /\ ret' = [ret EXCEPT ![p] = got]
            /\ pc' = [pc EXCEPT ![p] = "done"]
            /\ UNCHANGED <<sig, mgr, call, inst, kwargs>>
    /\ UNCHANGED <<defaults, ran, op, solo, prev, nops, receivers, managers, cache, db>>

\* CASCADE, lines 268-271: manager.get returned or raised; the instance
\* found is deleted by its own delete(), DoesNotExist is passed over
CascadeGot(p) ==
    /\ pc[p] = "unlock" /\ call[p] = "all" /\ op[p] = "db_delete"
    /\ Leave(p)
    /\ LET got == GetOutcome(filter(all(mgr[p], store[p]), kwargs[p])) IN
       CASE got.kind = "return" ->
               /\ inst' = [inst EXCEPT ![p] = got.value]
               /\ call' = [call EXCEPT ![p] = "delete"]
               /\ kwargs' = [kwargs EXCEPT ![p] = EmptyDict]
               /\ pc' = [pc EXCEPT ![p] = "lock"]
               /\ UNCHANGED <<sig, mgr, ret>>
         [] got.kind = "DoesNotExist" ->
               /\ HandleDone(p)
               /\ UNCHANGED ret
         [] OTHER ->
               /\ ret' = [ret EXCEPT ![p] = got]
               /\ pc' = [pc EXCEPT ![p] = "done"]
               /\ UNCHANGED <<sig, mgr, call, inst, kwargs, defaults>>
    /\ UNCHANGED <<defaults, ran, op, solo, prev, nops, receivers, managers, cache, db>>

\* CASCADE with only the lookup inside its try block: DoesNotExist raised
\* by the delete() of the instance found reaches the caller
CascadeDeletedRaises(p) ==
    /\ pc[p] = "unlock" /\ call[p] = "delete" /\ op[p] = "db_delete"
    /\ Leave(p)
    /\ IF exc[p] = "none"
       THEN /\ HandleDone(p)
            /\ UNCHANGED ret
       ELSE /\ ret' = [ret EXCEPT ![p] = Raised(exc[p])]
            /\ pc' = [pc EXCEPT ![p] = "done"]
            /\ UNCHANGED <<sig, mgr, call, inst, kwargs>>
    /\ UNCHANGED <<defaults, ran, op, solo, prev, nops, receivers, managers, cache, db>>

\* CASCADE, lines 268-271: the delete() of the instance found returned, or
\* raised DoesNotExist, which is passed over
CascadeDeleted(p) ==
    /\ pc[p] = "unlock" /\ call[p] = "delete" /\ op[p] = "db_delete"
    /\ Leave(p)
    /\ HandleDone(p)
    /\ UNCHANGED <<defaults, ret, ran, op, solo, prev, nops, receivers, managers, cache, db>>

\* every receiver has returned: django deletes the row
DbDeleteRow(p) ==
    /\ pc[p] = "signal"
    /\ sig[p].todo = << >>
    /\ db' = db \ {sig[p].instance}
    /\ ret' = [ret EXCEPT ![p] = Returned(EmptyDict)]
    /\ pc' = [pc EXCEPT ![p] = "done"]
    /\ UNCHANGED <<mgr, call, inst, store, kwargs, defaults, exc, sig, ran, op, solo, prev, nops,
                   receivers, managers, cache, locks>>

\* ------------------------------------------------------ defining a class
\* the id of the next CacheManager() object
NewId ==
    Max({managers[T].id : T \in DOMAIN managers}
            \cup {receivers[i].self : i \in 1..Len(receivers)}) + 1

\* getattr(field, "cache_on_delete", None), line 46: pol gives the
\* cache_on_delete of the foreign keys of the class body
CacheOnDelete(pol, f) == IF f \in DOMAIN pol THEN pol[f] ELSE "None"

\* the state _manage_on_delete_fields starts from: the receivers of the
\* signal, an empty _on_delete_funcs, nothing raised
NoFuncs(rs) == [receivers |-> rs, funcs |-> EmptyDict, raised |-> FALSE]

\* CacheManager._manage_on_delete_fields, lines 40-65: the loop over the
\* concrete fields still to visit.  A field that is no foreign key is
\* skipped; a foreign key whose cache_on_delete cannot be called raises
\* TypeError and ends the loop, the handles connected before it stay
\* connected; otherwise the handle is connected and stored under the name
\* of the field.
RECURSIVE ManageOnDeleteFields(_, _, _, _, _)
ManageOnDeleteFields(T, fields, pol, id, acc) ==
    IF fields = << >> THEN acc
    ELSE LET f == Head(fields)
             on_delete == CacheOnDelete(pol, f)
             h == FieldHandle(T, f, on_delete, id)
         IN  IF ~IsForeignKey(T, f)
             THEN ManageOnDeleteFields(T, Tail(fields), pol, id, acc)
             ELSE IF ~callable(on_delete)
             THEN [acc EXCEPT !.raised = TRUE]
             ELSE ManageOnDeleteFields(T, Tail(fields), pol, id,
                     [acc EXCEPT !.receivers = connect(@, h),
                                 !.funcs = DictSet(@, f, h)])

\* `class T(CacheModel)` whose foreign keys carry the cache_on_delete that
\* pol gives: CacheModelBase.__new__, lines 230-238, with _connect and
\* _manage_on_delete_fields.  When TypeError is raised the class statement
\* binds no name, and a class defined before under that name stays as it was.
define(p, T) ==
    \E pol \in [ConcreteFields(T) \ {"id"} -> OnDelete] :
        /\ MayStart(p)
        /\ \A f \in DOMAIN pol : Remote(T, f) \in DbModels \cup DOMAIN managers
        /\ nops' = nops + 1
        /\ op' = [op EXCEPT ![p] = "define"]
        /\ pc' = [pc EXCEPT ![p] = "done"]
        /\ mgr' = [mgr EXCEPT ![p] = T]
        /\ kwargs' = [kwargs EXCEPT ![p] = pol]
        /\ LET made == ManageOnDeleteFields(T, Fields(T), pol, NewId,
                                            NoFuncs(receivers)) IN
           /\ receivers' = made.receivers
           /\ IF made.raised
              THEN /\ ret' = [ret EXCEPT ![p] = Raised("TypeError")]
                   /\ UNCHANGED managers
              ELSE /\ managers' = DictSet(managers, T,
                                          Manager(T, NewId, made.funcs))
                   /\ ret' = [ret EXCEPT ![p] = Returned(EmptyDict)]
        /\ call' = [call EXCEPT ![p] = "none"]
        /\ inst' = [inst EXCEPT ![p] = EmptyDict]
        /\ defaults' = [defaults EXCEPT ![p] = EmptyDict]
        /\ store' = [store EXCEPT ![p] = EmptyDict]
        /\ exc' = [exc EXCEPT ![p] = "none"]
        /\ sig' = [sig EXCEPT ![p] = NoSignal]
        /\ ran' = [ran EXCEPT ![p] = {}]
        /\ solo' = [q \in Procs |-> q = p /\ \A r \in Procs \ {p} : ~Busy(r)]
        /\ prev' = [prev EXCEPT ![p] = NoCall]
        /\ UNCHANGED <<cache, locks, db>>

\* the managers no class holds any more: those of classes defined again,
\* and those of class statements that raised
Superseded ==
    {receivers[i].self : i \in 1..Len(receivers)}
        \ {managers[T].id : T \in DOMAIN managers}

\* @receiver(pre_delete, ...) connects the handle by a weak reference
\* (lines 52-59, no weak=False); the handle lives as long as the manager
\* that stores it (line 65).  When the class is defined again, or when
\* its definition raised, the class, its manager and its handles are
\* garbage: once they are collected the signal drops the receivers.
collect ==
    /\ Superseded # {}
    /\ LET Alive(r) == r.self \notin Superseded IN
       receivers' = SelectSeq(receivers, Alive)
    /\ UNCHANGED <<cache, locks, db, managers, pc, op, mgr, call, inst, store,
                   kwargs, defaults, exc, ret, sig, ran, solo, prev, nops>>

\* --------------------------------------------------------------------- Next
\* the steps of _access_store and of the writing methods inside it
Access(p) ==
    \/ AccessStoreLock(p)
    \/ SaveBlock(p)
    \/ DeleteBlock(p)
    \/ AccessStoreSet(p)
    \/ ReturnSave(p)
    \/ ReturnDelete(p)

\* callers that create, save and delete the instances of one record type
Next ==
    \E p \in Procs :
        \/ create(p, "Player")
        \/ save(p, "Player")
        \/ delete(p, "Player")
        \/ Access(p)

Spec == Init /\ [][Next]_vars

\* callers that create, delete and look up the instances of one record type
NextQuery ==
    \E p \in Procs :
        \/ create(p, "Player")
        \/ delete(p, "Player")
        \/ get(p, "Player")
        \/ Access(p)
        \/ AllBlock(p)
        \/ ReturnGet(p)

SpecQuery == Init /\ [][NextQuery]_vars

\* callers that create, delete and filter the instances of one record type
NextFilter ==
    \E p \in Procs :
        \/ create(p, "Player")
        \/ delete(p, "Player")
        \/ filter_call(p, "Player")
        \/ Access(p)
        \/ AllBlock(p)
        \/ ReturnFilter(p)

SpecFilter == Init /\ [][NextFilter]_vars

\* callers that get or create the instances of one record type
NextGetOrCreate ==
    \E p \in Procs :
        \/ get_or_create(p, "Player")
        \/ AccessStoreLock(p)
        \/ AllBlock(p)
        \/ SaveBlock(p)
        \/ AccessStoreSet(p)
        \/ GocGot(p)
        \/ GocCreated(p)

SpecGetOrCreate == Init /\ [][NextGetOrCreate]_vars

\* callers that create and delete instances of one record type while
\* others read it with all, count, filter and get
NextRead ==
    \E p \in Procs :
        \/ create(p, "Player")
        \/ delete(p, "Player")
        \/ all_call(p, "Player")
        \/ count(p, "Player")
        \/ filter_call(p, "Player")
        \/ get(p, "Player")
        \/ Access(p)
        \/ AllBlock(p)
        \/ ReturnAll(p)
        \/ ReturnCount(p)
        \/ ReturnFilter(p)
        \/ ReturnGet(p)

SpecRead == Init /\ [][NextRead]_vars

\* callers of the managers of the two record types
NextTypes ==
    \E p \in Procs : \E T \in CacheTypes :
        \/ create(p, T)
        \/ delete(p, T)
        \/ count(p, T)
        \/ Access(p)
        \/ AllBlock(p)
        \/ ReturnCount(p)

SpecTypes == Init /\ [][NextTypes]_vars

\* callers that create, delete, list and get-or-create the instances of one
\* record type, and deletions of the database rows it refers to
NextLive ==
    \E p \in Procs :
        \/ create(p, "Player")
        \/ delete(p, "Player")
        \/ all_call(p, "Player")
        \/ get_or_create(p, "Player")
        \/ db_delete(p)
        \/ handle(p)
        \/ CascadeGot(p)
        \/ CascadeDeleted(p)
        \/ DbDeleteRow(p)
        \/ Access(p)
        \/ AllBlock(p)
        \/ ReturnAll(p)
        \/ GocGot(p)
        \/ GocCreated(p)

\* the steps of a call of p once it is started, the wait for the lock apart
Proceed(p) ==
    \/ SaveBlock(p) \/ DeleteBlock(p) \/ AllBlock(p) \/ AccessStoreSet(p)
    \/ ReturnSave(p) \/ ReturnDelete(p) \/ ReturnAll(p)
    \/ GocGot(p) \/ GocCreated(p)
    \/ handle(p) \/ CascadeGot(p) \/ CascadeDeleted(p) \/ DbDeleteRow(p)

\* a started call keeps running, and a lock that is free again and again is
\* granted to a process that waits for it
SpecLive ==
    /\ Init /\ [][NextLive]_vars
    /\ \A p \in Procs : WF_vars(Proceed(p)) /\ SF_vars(AccessStoreLock(p))

\* callers that save, delete and list the instances of one record type
NextSerial ==
    \E p \in Procs :
        \/ save(p, "Player")
        \/ delete(p, "Player")
        \/ all_call(p, "Player")
        \/ Access(p)
        \/ AllBlock(p)
        \/ ReturnAll(p)

SpecSerial == Init /\ [][NextSerial]_vars

\* callers that create and read instances of one record type, change the
\* instances they received, and save them again
NextDetached ==
    \E p \in Procs :
        \/ create(p, "Player")
        \/ get(p, "Player")
        \/ all_call(p, "Player")
        \/ SetAttr(p)
        \/ save_returned(p)
        \/ AccessStoreLock(p)
        \/ SaveBlock(p)
        \/ AllBlock(p)
        \/ AccessStoreSet(p)
        \/ ReturnSave(p)
        \/ ReturnGet(p)
        \/ ReturnAll(p)

SpecDetached == Init /\ [][NextDetached]_vars

\* callers that create and delete the instances of a record type, and
\* deletions of the database rows its foreign key refers to
NextCascade ==
    \E p \in Procs :
        \/ create(p, "Player")
        \/ delete(p, "Player")
        \/ db_delete(p)
        \/ handle(p)
        \/ CascadeGot(p)
        \/ CascadeDeleted(p)
        \/ DbDeleteRow(p)
        \/ Access(p)
        \/ AllBlock(p)

SpecCascade == InitAnyPolicy /\ [][NextCascade]_vars

\* the module is loaded and no record type is defined yet
Undeclared ==
    /\ cache = << >>
    /\ locks = [n \in {StoreName(T) : T \in Declarable} |-> {}]
    /\ db = 1..MaxRef
    /\ receivers = << >>
    /\ managers = BaseOnly
    /\ pc = [p \in Procs |-> "idle"]
    /\ op = [p \in Procs |-> "none"]
    /\ mgr = [p \in Procs |-> "none"]
    /\ call = [p \in Procs |-> "none"]
    /\ inst = [p \in Procs |-> EmptyDict]
    /\ store = [p \in Procs |-> EmptyDict]
    /\ kwargs = [p \in Procs |-> EmptyDict]
    /\ defaults = [p \in Procs |-> EmptyDict]
    /\ exc = [p \in Procs |-> "none"]
    /\ ret = [p \in Procs |-> NoResult]
    /\ sig = [p \in Procs |-> NoSignal]
    /\ ran = [p \in Procs |-> {}]
    /\ solo = [p \in Procs |-> FALSE]
    /\ prev = [p \in Procs |-> NoCall]
    /\ nops = 0

\* record types are defined, and defined again, while callers create
\* instances and delete database rows
NextDeclare ==
    \/ collect
    \/ \E p \in Procs :
        \/ \E T \in CacheTypes : define(p, T)
        \/ \E T \in CacheTypes : create(p, T)
        \/ db_delete(p)
        \/ handle(p)
        \/ CascadeGot(p)
        \/ CascadeDeleted(p)
        \/ DbDeleteRow(p)
        \/ AccessStoreLock(p)
        \/ AllBlock(p)
        \/ SaveBlock(p)
        \/ DeleteBlock(p)
        \/ AccessStoreSet(p)
        \/ ReturnSave(p)

SpecDeclare == Undeclared /\ [][NextDeclare]_vars

\* a record type with two foreign keys is defined, and defined again,
\* while callers save its instances and delete database rows
NextFields ==
    \/ collect
    \/ \E p \in Procs :
        \/ define(p, "Link")
        \/ save(p, "Link")
        \/ db_delete(p)
        \/ handle(p)
        \/ CascadeGot(p)
        \/ CascadeDeleted(p)
        \/ DbDeleteRow(p)
        \/ AccessStoreLock(p)
        \/ AllBlock(p)
        \/ SaveBlock(p)
        \/ DeleteBlock(p)
        \/ AccessStoreSet(p)
        \/ ReturnSave(p)

SpecFields == Undeclared /\ [][NextFields]_vars

\* ================================================================== claims
\* the on-delete policy the manager of T registered for its foreign key
Policy(T) ==
    LET Mine(r) == r.manager = T IN Head(SelectSeq(receivers, Mine)).on_delete

\* the process took the step
Stepped(p) == <<pc[p], sig[p]>>' # <<pc[p], sig[p]>>

\* a stored dict passes the criteria of a get()
DictMatches(d, kw) ==
    \A name \in DOMAIN kw : d[IF name = "pk" THEN "id" ELSE name] = kw[name]

\* C1: two create() calls on the same record type, the only calls made on an
\* empty store, whatever their interleaving, return the primary keys 1 and 2,
\* and both records are in the collection once both have returned.
C1_ConcurrentCreate ==
    \A p, q \in Procs :
        (/\ p # q /\ nops = 2
         /\ pc[p] = "done" /\ pc[q] = "done"
         /\ op[p] = "create" /\ op[q] = "create" /\ mgr[p] = mgr[q])
        => /\ {ret[p].value["id"], ret[q].value["id"]} = {1, 2}
           /\ \A r \in {p, q} :
                /\ ret[r].kind = "return"
                /\ ret[r].value["id"] \in DOMAIN Collection(mgr[r])
                /\ Collection(mgr[r])[ret[r].value["id"]]
                      = [f \in ConcreteFields(mgr[r]) |-> ret[r].value[f]]

\* both creates have returned and they overlapped in time
C1_Witness ==
    /\ nops = 2
    /\ \A p \in Procs : pc[p] = "done" /\ op[p] = "create" /\ ~solo[p]

\* C2: while a process stands between its cache.get and its cache.set, no
\* other process is about to read or to write the store of the same type.
C2_MutualExclusion ==
    \A p, q \in Procs :
        (p # q /\ mgr[p] = mgr[q] /\ pc[p] = "set") => pc[q] \notin {"get", "set"}

\* a save is between its get and its set while a delete waits for the lock
C2_Witness ==
    \E p, q \in Procs :
        /\ p # q /\ mgr[p] = mgr[q]
        /\ pc[p] = "set" /\ call[p] = "save"
        /\ pc[q] = "lock" /\ call[q] = "delete"

\* C3: every key of a stored collection is the primary key field of the
\* dict stored under it.
C3_KeyIsPk ==
    \A T \in CacheTypes :
        \A k \in DOMAIN Collection(T) : Collection(T)[k]["id"] = k

\* three calls were made, the last one a delete that succeeded, and a record
\* is left under key 2
C3_Witness ==
    /\ nops = 3
    /\ \E p \in Procs : pc[p] = "done" /\ op[p] = "delete" /\ ret[p].kind = "return"
    /\ DOMAIN Collection("Player") = {2}

\* C4: the block of save on an instance without primary key gives it
\* max(K \cup {0}) + 1, K the keys of the collection it reads: more than
\* every key of K, and 1 when K is empty.
C4_NewPk ==
    [][\A p \in Procs :
        (/\ pc[p] = "get" /\ pc'[p] = "set"
         /\ call[p] = "save" /\ inst[p]["id"] = None)
        => LET K == DOMAIN Collection(mgr[p]) IN
           /\ inst'[p]["id"] = Max(K \cup {0}) + 1
           /\ \A k \in K : inst'[p]["id"] > k
           /\ (K = {} => inst'[p]["id"] = 1)
           /\ DOMAIN store'[p] = K \cup {inst'[p]["id"]}]_vars

\* a create was given key 3 over a collection whose only key is 2
C4_Witness ==
    \E p \in Procs :
        /\ pc[p] = "set" /\ op[p] = "create"
        /\ DOMAIN Collection(mgr[p]) = {2}
        /\ inst[p]["id"] = 3

\* C5: save on an instance whose primary key is a key of the collection
\* keeps the instance's primary key, and writes a collection with the same
\* keys, the instance's fields under its key, every other entry as it was.
C5_Overwrite ==
    [][\A p \in Procs :
        LET T == mgr[p]
            k == inst[p]["id"]
            Same(new) ==
                /\ DOMAIN new = DOMAIN Collection(T)
                /\ new[k] = [f \in ConcreteFields(T) |-> inst[p][f]]
                /\ \A j \in (DOMAIN new) \ {k} : new[j] = Collection(T)[j]
        IN  (call[p] = "save" /\ k \in DOMAIN Collection(T))
            => /\ (pc[p] = "get" /\ pc'[p] = "set")
                     => (inst'[p] = inst[p] /\ Same(store'[p]))
               /\ (pc[p] = "set" /\ pc'[p] = "unlock")
                     => (inst'[p] = inst[p] /\ Same(Collection(T)'))]_vars

\* a save is about to replace one of two entries by different fields
C5_Witness ==
    \E p \in Procs :
        /\ pc[p] = "set" /\ op[p] = "save"
        /\ inst[p]["id"] \in DOMAIN Collection(mgr[p])
        /\ Cardinality(DOMAIN Collection(mgr[p])) = 2
        /\ Collection(mgr[p])[inst[p]["id"]] # store[p][inst[p]["id"]]

\* the model and primary key of the instance a finished call deleted
Deleted(p) ==
    IF op[p] = "db_delete"
    THEN [model |-> "Karaoke", pk |-> sig[p].instance]
    ELSE [model |-> mgr[p], pk |-> inst[p]["id"]]

\* the call of p was a delete, it succeeded, and no call overlapped with it
DeletedAlone(p) ==
    /\ pc[p] = "done" /\ solo[p]
    /\ op[p] \in {"delete", "db_delete"}
    /\ ret[p].kind = "return"

\* C6: after an instance b of B is deleted, no instance of a record type A
\* with a CASCADE foreign key to B has its foreign key equal to b.pk.
C6_CascadeDeletesReferrers ==
    \A p \in Procs : \A A \in CacheTypes :
        (/\ DeletedAlone(p)
         /\ Policy(A) = "CASCADE" /\ RemoteModel(A) = Deleted(p).model)
        => \A k \in DOMAIN Collection(A) :
              Collection(A)[k][FkField(A)] # Deleted(p).pk

\* C7: the deletion of b deletes or changes no instance of A whose foreign
\* key refers to another instance than b.
C7_CascadeKeepsOthers ==
    [][\A p \in Procs :
        (op[p] = "db_delete" /\ pc[p] = "set" /\ pc'[p] = "unlock")
        => \A k \in DOMAIN Collection(mgr[p]) :
              Collection(mgr[p])[k][FkField(mgr[p])] # sig[p].instance
              => /\ k \in DOMAIN Collection(mgr[p])'
                 /\ Collection(mgr[p])'[k] = Collection(mgr[p])[k]]_vars

\* C8: with a DO_NOTHING foreign key from A to B, no step of the deletion of
\* an instance of B changes the store backend: A's collection stays as it is.
C8_DoNothingKeeps ==
    [][\A p \in Procs :
        (op[p] = "db_delete" /\ Policy("Player") = "DO_NOTHING" /\ Stepped(p))
        => cache' = cache]_vars

\* the row is deleted, the DO_NOTHING handle was called, and a Player still
\* refers to the deleted row
C8_Witness ==
    \E p \in Procs :
        /\ pc[p] = "done" /\ op[p] = "db_delete"
        /\ Policy("Player") = "DO_NOTHING"
        /\ ran[p] = {DispatchUid("Player")}
        /\ sig[p].instance \notin db
        /\ \E k \in DOMAIN Collection("Player") :
              Collection("Player")[k]["karaoke"] = sig[p].instance

\* C9: a delete that succeeded has called, before returning, the handle of
\* every record type that declares a foreign key to the deleted type.
C9_DeleteRunsPolicies ==
    \A p \in Procs :
        (pc[p] = "done" /\ op[p] \in {"delete", "db_delete"} /\ ret[p].kind = "return")
        => ran[p] = {DispatchUid(A) : A \in {T \in CacheTypes :
                                               RemoteModel(T) = Deleted(p).model}}

\* C10: get returns the one stored record that passes the criteria, raises
\* DoesNotExist when none does and MultipleObjectsReturned when several do,
\* and no step of it changes a collection.
C10_Get ==
    [][\A p \in Procs :
        op[p] = "get" =>
        /\ (pc[p] = "unlock" /\ pc'[p] = "done") =>
              LET T == mgr[p]
                  M == {k \in DOMAIN Collection(T) :
                            DictMatches(Collection(T)[k], kwargs[p])}
              IN  /\ Cardinality(M) = 1 =>
                        /\ ret'[p].kind = "return"
                        /\ \A k \in M : \A f \in ConcreteFields(T) :
                              ret'[p].value[f] = Collection(T)[k][f]
                  /\ Cardinality(M) = 0 => ret'[p] = Raised("DoesNotExist")
                  /\ Cardinality(M) >= 2 => ret'[p] = Raised("MultipleObjectsReturned")
        /\ Stepped(p) => \A T \in CacheTypes : Collection(T)' = Collection(T)]_vars

\* a get by foreign key ended over two records that both match
C10_Witness ==
    \E p \in Procs :
        /\ pc[p] = "done" /\ op[p] = "get"
        /\ ret[p].kind = "MultipleObjectsReturned"
        /\ Cardinality({k \in DOMAIN Collection(mgr[p]) :
                           DictMatches(Collection(mgr[p])[k], kwargs[p])}) = 2

\* the keys of the stored records of T that pass the criteria kw
Matching(T, kw) == {k \in DOMAIN Collection(T) : DictMatches(Collection(T)[k], kw)}

\* C11: filter returns exactly the stored records for which every named
\* field equals the given value, and with no criteria every stored record.
C11_Filter ==
    [][\A p \in Procs :
        (op[p] = "filter" /\ pc[p] = "unlock" /\ pc'[p] = "done")
        => LET T == mgr[p]
               M == Matching(T, kwargs[p])
           IN  /\ ret'[p].kind = "return"
               /\ DOMAIN ret'[p].value = M
               /\ \A k \in M : \A f \in ConcreteFields(T) :
                     ret'[p].value[k][f] = Collection(T)[k][f]
               /\ kwargs[p] = EmptyDict => M = DOMAIN Collection(T)]_vars

\* a filter on both fields returned one of two records, the other one
\* passing one of the two criteria
C11_Witness ==
    \E p \in Procs :
        /\ pc[p] = "done" /\ op[p] = "filter"
        /\ DOMAIN kwargs[p] = {"pk", "karaoke"}
        /\ Cardinality(DOMAIN Collection("Player")) = 2
        /\ Cardinality(DOMAIN ret[p].value) = 1
        /\ \E k \in (DOMAIN Collection("Player")) \ DOMAIN ret[p].value :
              Collection("Player")[k]["karaoke"] = kwargs[p]["karaoke"]

\* p has ended a get_or_create that ran alone, right after another
\* get_or_create with the same criteria that ran alone and created its instance
SecondOfTwo(p) ==
    /\ pc[p] = "done" /\ op[p] = "get_or_create" /\ solo[p]
    /\ prev[p].op = "get_or_create"
    /\ prev[p].kwargs = kwargs[p]
    /\ prev[p].ret.kind = "return"
    /\ prev[p].ret.value.created

\* C12, as stated: the second of two successive get_or_create calls with
\* the same criteria, the first of which found no record, returns the
\* instance of the first with False, and one record passes the criteria.
C12_Original ==
    \A p \in Procs :
        SecondOfTwo(p)
        => /\ ret[p] = Returned(Pair(prev[p].ret.value.instance, FALSE))
           /\ Cardinality(Matching(mgr[p], kwargs[p])) = 1

\* C12: the same, when the instance the first call created passes the
\* criteria, that is when no default replaced a value of the criteria.
C12_GetOrCreateTwice ==
    \A p \in Procs :
        (SecondOfTwo(p) /\ Matches(prev[p].ret.value.instance, kwargs[p]))
        => /\ ret[p] = Returned(Pair(prev[p].ret.value.instance, FALSE))
           /\ Cardinality(Matching(mgr[p], kwargs[p])) = 1

\* the second call found the instance the first call created beside an
\* older record that does not pass the criteria
C12_Witness ==
    \E p \in Procs :
        /\ SecondOfTwo(p)
        /\ Matches(prev[p].ret.value.instance, kwargs[p])
        /\ kwargs[p] # EmptyDict
        /\ Cardinality(DOMAIN Collection(mgr[p])) = 2

\* C13: get_or_create over two or more records that pass the criteria
\* raises MultipleObjectsReturned to the caller, and no step of its lookup
\* changes the collection.
C13_GetOrCreateMultiple ==
    [][\A p \in Procs :
        (op[p] = "get_or_create" /\ call[p] = "all")
        => /\ Stepped(p) => \A T \in CacheTypes : Collection(T)' = Collection(T)
           /\ (/\ pc[p] = "unlock" /\ pc'[p] # "unlock"
               /\ Cardinality(Matching(mgr[p], kwargs[p])) >= 2)
              => /\ ret'[p] = Raised("MultipleObjectsReturned")
                 /\ pc'[p] = "done"]_vars

\* a get_or_create ended with MultipleObjectsReturned over two records
\* that pass its criteria, the only records stored
C13_Witness ==
    \E p \in Procs :
        /\ pc[p] = "done" /\ op[p] = "get_or_create"
        /\ ret[p].kind = "MultipleObjectsReturned"
        /\ Cardinality(Matching(mgr[p], kwargs[p])) = 2
        /\ Cardinality(DOMAIN Collection(mgr[p])) = 2

\* the value get_or_create gives to field f of the instance it creates
Merged(kw, dflt, f) ==
    IF f \in DOMAIN dflt THEN dflt[f]
    ELSE IF f \in DOMAIN kw THEN kw[f]
    ELSE IF f = "id" /\ "pk" \in DOMAIN kw THEN kw["pk"]
    ELSE None

\* C14: get_or_create that finds no record creates an instance whose fields
\* are the criteria overridden by the defaults, stores it under its primary
\* key and returns it with True.
C14_GetOrCreateDefaults ==
    [][\A p \in Procs :
        op[p] = "get_or_create" =>
        LET T == mgr[p] IN
        /\ (/\ pc[p] = "unlock" /\ call[p] = "all" /\ pc'[p] # "unlock"
            /\ Matching(T, kwargs[p]) = {})
           => /\ call'[p] = "save"
              /\ \A f \in ConcreteFields(T) :
                    inst'[p][f] = Merged(kwargs[p], defaults[p], f)
        /\ (pc[p] = "get" /\ call[p] = "save" /\ pc'[p] = "set")
           => \A f \in ConcreteFields(T) \ {"id"} : inst'[p][f] = inst[p][f]
        /\ (pc[p] = "unlock" /\ call[p] = "save" /\ pc'[p] = "done")
           => /\ ret'[p] = Returned(Pair(inst[p], TRUE))
              /\ inst[p]["id"] \in DOMAIN Collection(T)
              /\ Collection(T)[inst[p]["id"]]
                    = [f \in ConcreteFields(T) |-> inst[p][f]]]_vars

\* a get_or_create returned True for an instance that carries the default
\* in a field the criteria name with another value
C14_Witness ==
    \E p \in Procs :
        /\ pc[p] = "done" /\ op[p] = "get_or_create"
        /\ ret[p].kind = "return" /\ ret[p].value.created
        /\ "karaoke" \in (DOMAIN kwargs[p]) \cap (DOMAIN defaults[p])
        /\ kwargs[p]["karaoke"] # defaults[p]["karaoke"]
        /\ Collection(mgr[p])[ret[p].value.instance["id"]]["karaoke"]
              = defaults[p]["karaoke"]

\* C15: delete raises DoesNotExist whenever the primary key of its instance
\* is not a key of the collection it reads under the lock (a record already
\* deleted, an instance never saved), and writes nothing then; when the key
\* is there, the entry is removed and nothing is raised.
C15_DeleteMissing ==
    [][\A p \in Procs :
        op[p] = "delete" =>
        LET T == mgr[p]
            k == inst[p]["id"]
        IN  /\ (pc[p] = "get" /\ pc'[p] # "get") =>
                  IF k \in DOMAIN Collection(T)
                  THEN pc'[p] = "set" /\ exc'[p] = "none"
                       /\ store'[p] = DictDel(Collection(T), k)
                  ELSE pc'[p] = "unlock" /\ exc'[p] = "DoesNotExist"
            /\ (pc[p] = "unlock" /\ pc'[p] = "done") =>
                  /\ exc[p] = "DoesNotExist" => ret'[p] = Raised("DoesNotExist")
                  /\ exc[p] = "none" => ret'[p].kind = "return"
            /\ (Stepped(p) /\ exc'[p] = "DoesNotExist") => cache' = cache]_vars

\* the same instance was deleted twice, one after the other: the first
\* delete returned, the second raised DoesNotExist
C15_Witness ==
    \E p, q \in Procs :
        /\ p # q
        /\ pc[p] = "done" /\ op[p] = "delete" /\ ret[p].kind = "return"
        /\ pc[q] = "done" /\ op[q] = "delete" /\ solo[q]
        /\ ret[q] = Raised("DoesNotExist")
        /\ inst[q] = inst[p]

\* C16: the lock of a record type is held only by a process inside
\* _access_store of that type: it is given back when the method leaves,
\* also when the block of delete has raised DoesNotExist.
C16_LockReleased ==
    \A T \in CacheTypes : \A p \in locks[StoreName(T)] :
        pc[p] \in {"get", "set", "unlock"} /\ mgr[p] = T

\* a create has taken the lock and returned after a delete of the same type
\* raised DoesNotExist, and the lock is free again
C16_Witness ==
    \E p, q \in Procs :
        /\ p # q /\ mgr[p] = mgr[q]
        /\ pc[p] = "done" /\ op[p] = "delete" /\ ret[p] = Raised("DoesNotExist")
        /\ pc[q] = "done" /\ op[q] = "create" /\ solo[q] /\ ret[q].kind = "return"
        /\ lock_free(StoreName(mgr[q]))

C18_DetachedCopies ==
    [][/\ \A T \in CacheTypes :
            Collection(T)' # Collection(T)
            => \E p \in Procs :
                  /\ pc[p] = "set" /\ pc'[p] = "unlock"
                  /\ call[p] \in {"save", "delete"} /\ mgr[p] = T
       /\ \A p \in Procs :
            (op[p] = "get" /\ pc[p] = "unlock" /\ pc'[p] = "done"
             /\ ret'[p].kind = "return")
            => \E k \in DOMAIN Collection(mgr[p]) :
                  ret'[p].value = dict_to_instance(mgr[p], Collection(mgr[p])[k])]_vars

\* a caller changed the instance its create returned; a get that ran
\* afterwards returned the record as it is stored, not as the caller has it
C18_Witness ==
    \E p, q \in Procs :
        /\ nops = 2
        /\ pc[p] = "done" /\ op[p] = "create"
        /\ pc[q] = "done" /\ op[q] = "get" /\ solo[q] /\ ret[q].kind = "return"
        /\ ret[q].value["id"] = ret[p].value["id"]
        /\ ret[q].value # ret[p].value
        /\ ret[q].value = dict_to_instance("Player", Collection("Player")[ret[q].value["id"]])

\* the operations that only read
ReadOps == {"all", "count", "filter", "get"}

\* C19: all, count, filter and get hold the lock of their type from the
\* read of the store to the return, and none of their steps changes a
\* collection: the store they write back is the collection as it is then,
\* with every save and delete made by other callers.
C19_ReadOnly ==
    [][\A p \in Procs :
        op[p] \in ReadOps =>
        /\ pc[p] \in {"get", "set", "unlock"} => locks[StoreName(mgr[p])] = {p}
        /\ pc[p] = "set" => store[p] = Collection(mgr[p])
        /\ Stepped(p) => \A T \in CacheTypes : Collection(T)' = Collection(T)]_vars

\* a count is between its read and its write-back while a create of the
\* same type, started meanwhile, waits for the lock
C19_Witness ==
    \E p, q \in Procs :
        /\ p # q /\ mgr[p] = mgr[q]
        /\ op[p] = "count" /\ pc[p] = "set"
        /\ op[q] = "create" /\ pc[q] = "lock"
        /\ Collection(mgr[p]) # EmptyDict

\* C20: a step of a manager operation on record type T leaves the store
\* entry of every other record type as it is, takes the lock of T alone and
\* reads the entry of T alone.
C20_OwnStoreOnly ==
    [][\A p \in Procs : \A T \in CacheTypes :
        (mgr'[p] = T /\ Stepped(p))
        => /\ \A U \in CacheTypes \ {T} :
                /\ (StoreName(U) \in DOMAIN cache') = (StoreName(U) \in DOMAIN cache)
                /\ Collection(U)' = Collection(U)
                /\ (p \in locks'[StoreName(U)]) = (p \in locks[StoreName(U)])
           /\ (pc[p] = "get" /\ call[p] = "all") => store'[p] = Collection(T)
           /\ pc[p] = "set" => Collection(T)' = store[p]]_vars

\* a delete on one record type and a create on the other are inside
\* _access_store at the same time, each about to write its own store
C20_Witness ==
    \E p, q \in Procs :
        /\ mgr[p] = "Player" /\ op[p] = "delete" /\ pc[p] = "set"
        /\ mgr[q] = "Item" /\ op[q] = "create" /\ pc[q] = "set"
        /\ inst[p]["id"] \in DOMAIN Collection("Player")

\* C21: a process inside a manager operation can always take its next step
\* unless it waits for the lock of its own record type and that lock is
\* held: a lock held on another record type never stops it.
C21_TypesIndependent ==
    \A q \in Procs :
        (/\ pc[q] \in {"lock", "get", "set", "unlock"}
         /\ pc[q] = "lock" => lock_free(StoreName(mgr[q])))
        => ENABLED (Access(q) \/ AllBlock(q) \/ ReturnCount(q))

\* a create has taken the lock of Item, has written its store and is about
\* to return, while a process holds the lock of Player
C21_Witness ==
    \E p, q \in Procs :
        /\ mgr[p] = "Player" /\ pc[p] = "get" /\ locks[StoreName("Player")] = {p}
        /\ mgr[q] = "Item" /\ op[q] = "create" /\ pc[q] = "unlock"
        /\ locks[StoreName("Item")] = {q}

\* C22: every started public operation ends: it returns or it raises.
C22_Terminates ==
    \A p \in Procs : [](Busy(p) => <>(pc[p] = "done"))

\* a deletion of a database row has run its CASCADE handle and returned
\* while another process was inside a get_or_create
C22_Witness ==
    \E p, q \in Procs :
        /\ pc[p] = "done" /\ op[p] = "db_delete" /\ ran[p] # {}
        /\ op[q] = "get_or_create" /\ Busy(q)

\* the instances a caller can hand to save: with or without primary key and
\* foreign key
AnyInstance(T) ==
    { [f \in ConcreteFields(T) |-> IF f = "id" THEN k ELSE v] :
        k \in {None} \cup (1..MaxPk), v \in {None} \cup (1..MaxRef) }

C28_PkReuse ==
    \A p, q \in Procs :
        (/\ p # q
         /\ pc[p] = "done" /\ op[p] = "delete" /\ ret[p].kind = "return"
         /\ pc[q] = "done" /\ op[q] = "create" /\ solo[q]
         /\ \A j \in (DOMAIN Collection(mgr[q])) \ {ret[q].value["id"]} :
               j < inst[p]["id"])
        => /\ ret[q].value["id"] <= inst[p]["id"]
           /\ ret[q].value["id"]
                 = Max(((DOMAIN Collection(mgr[q])) \ {ret[q].value["id"]}) \cup {0}) + 1

\* the only record, with key 1, was deleted, and the create that came next
\* stored a new record under key 1
C28_Witness ==
    \E p, q \in Procs :
        /\ p # q /\ nops = 3
        /\ pc[p] = "done" /\ op[p] = "delete" /\ ret[p].kind = "return"
        /\ inst[p]["id"] = 1
        /\ pc[q] = "done" /\ op[q] = "create" /\ solo[q]
        /\ ret[q].value["id"] = 1
        /\ DOMAIN Collection("Player") = {1}

\* C29: the result of all, count, filter and get is computed from the
\* collection as it stands at one instant of the call, the instant of its
\* return: the whole result comes from that one collection.
C29_Snapshot ==
    [][\A p \in Procs :
        (op[p] \in ReadOps /\ pc[p] = "unlock" /\ pc'[p] = "done")
        => LET T == mgr[p]
               now == all(T, Collection(T))
           IN  CASE op[p] = "all" -> ret'[p] = Returned(now)
                 [] op[p] = "count" ->
                       /\ ret'[p].kind = "return"
                       /\ ret'[p].value = Cardinality(DOMAIN Collection(T))
                 [] op[p] = "filter" -> ret'[p] = Returned(filter(now, kwargs[p]))
                 [] op[p] = "get" -> ret'[p] = GetOutcome(filter(now, kwargs[p]))]_vars

\* an all() that started on an empty collection, ran beside a create and
\* returned after it, gave the one record the create stored
C29_Witness ==
    \E p, q \in Procs :
        /\ nops = 2 /\ p = "p1" /\ q = "p2"
        /\ pc[p] = "done" /\ op[p] = "all"
        /\ pc[q] = "done" /\ op[q] = "create"
        /\ DOMAIN ret[p].value = {1}

\* C30: each save, delete and all takes effect at one step, the write-back
\* it makes while it holds the lock: there the collection becomes what the
\* operation alone makes of the collection that was there, the result is
\* the one of the operation run alone on it, and no other step changes the
\* collection.  The calls are thus equal to their run one after the other
\* in the order in which they held the lock.
C30_Serializable ==
    [][/\ \A T \in CacheTypes :
            Collection(T)' # Collection(T)
            => \E p \in Procs : pc[p] = "set" /\ pc'[p] = "unlock" /\ mgr[p] = T
       /\ \A p \in Procs :
            LET T == mgr[p]
                k == inst[p]["id"]
            IN  /\ (pc[p] = "set" /\ pc'[p] = "unlock") =>
                      /\ locks[StoreName(T)] = {p}
                      /\ call[p] = "save" =>
                            Collection(T)' = DictSet(Collection(T), k,
                                                     instance_to_dict(T, inst[p]))
                      /\ call[p] = "delete" =>
                            /\ k \in DOMAIN Collection(T)
                            /\ Collection(T)' = DictDel(Collection(T), k)
                      /\ call[p] = "all" => Collection(T)' = Collection(T)
                /\ (pc[p] = "get" /\ pc'[p] = "set" /\ call[p] = "save") =>
                      inst'[p]["id"] = IF k = None THEN NewPk(Collection(T)) ELSE k
                /\ (pc[p] = "unlock" /\ pc'[p] = "done") =>
                      /\ op[p] = "save" => ret'[p] = Returned(inst[p])
                                           /\ k \in DOMAIN Collection(T)
                      /\ op[p] = "all" => ret'[p] = Returned(all(T, Collection(T)))
                      /\ op[p] = "delete" =>
                            IF exc[p] = "none"
                            THEN ret'[p].kind = "return" /\ k \notin DOMAIN Collection(T)
                            ELSE ret'[p] = Raised("DoesNotExist")
                                 /\ k \notin DOMAIN Collection(T)]_vars

\* a save and a delete of the same key overlapped, the save held the lock
\* first: the delete removed the record and the collection is empty
C30_Witness ==
    \E p, q \in Procs :
        /\ nops = 2 /\ p = "p1" /\ q = "p2"
        /\ pc[p] = "done" /\ op[p] = "delete" /\ ret[p].kind = "return"
        /\ pc[q] = "done" /\ op[q] = "save"
        /\ Collection("Player") = EmptyDict

\* the values of cache_on_delete that can be called
Functions == {"CASCADE", "DO_NOTHING"}

\* C23: defining a record type whose foreign key carries an on-delete
\* policy that cannot be called raises TypeError in the class statement and
\* creates nothing: no manager and no handle ever carries such a policy, a
\* failed first definition leaves the registry as the module's load left it,
\* and a manager operation runs only on a type that has a manager, hence on
\* no type whose definition failed.
C23_NotCallableFails ==
    /\ \A p \in Procs :
        op[p] = "define" =>
            /\ ret[p].kind \in {"TypeError", "return"}
            /\ ret[p].kind = "TypeError"
                    <=> kwargs[p][FkField(mgr[p])] \notin Functions
    /\ \A T \in DOMAIN managers : \A f \in DOMAIN managers[T].on_delete_funcs :
        managers[T].on_delete_funcs[f].on_delete \in Functions
    /\ \A i \in 1..Len(receivers) : receivers[i].on_delete \in Functions
    /\ (nops = 1 /\ \E p \in Procs : ret[p].kind = "TypeError")
            => managers = BaseOnly /\ receivers = << >>
    /\ \A p \in Procs :
        op[p] \notin {"none", "define", "db_delete"} => mgr[p] \in DOMAIN managers

\* Player was defined with a policy that is no function: TypeError, and
\* there is no Player type to operate on
C23_Witness ==
    \E p \in Procs :
        /\ op[p] = "define" /\ mgr[p] = "Player"
        /\ kwargs[p]["karaoke"] = "notcallable"
        /\ ret[p] = Raised("TypeError")
        /\ "Player" \notin DOMAIN managers

\* C24: a record type defined any number of times has exactly one handle
\* subscribed under its dispatch_uid, and a deletion of a Karaoke row that
\* overlaps nothing runs the policy of Player once.
C24_RegisteredOnce ==
    /\ \A T \in (DOMAIN managers) \ {"CacheModel"} :
        Cardinality({i \in 1..Len(receivers) : receivers[i].uid = DispatchUid(T)}) = 1
    /\ \A p \in Procs :
        (op[p] = "db_delete" /\ pc[p] = "done" /\ solo[p]
            /\ "Player" \in DOMAIN managers)
        => ran[p] = {DispatchUid("Player")}

C27_OwnManager ==
    /\ \A T \in DOMAIN managers :
        /\ managers[T].model = T
        /\ managers[T].name = T
        /\ managers[T].store_name = T \o ":CacheStore"
    /\ \A T1, T2 \in DOMAIN managers :
        T1 # T2 => /\ managers[T1].id # managers[T2].id
                   /\ managers[T1].store_name # managers[T2].store_name
    /\ \A p \in Procs :
        pc[p] \in {"get", "set"} =>
            /\ mgr[p] \in DOMAIN managers
            /\ \A n \in DOMAIN locks :
                p \in locks[n] <=> n = managers[mgr[p]].store_name

\* Player and Item are both defined, and a caller creating an Item holds
\* the lock of Item's store
C27_Witness ==
    \E p \in Procs :
        /\ {"Player", "Item"} \subseteq DOMAIN managers
        /\ mgr[p] = "Item" /\ pc[p] = "set"
        /\ locks["Item:CacheStore"] = {p}
        /\ locks["Player:CacheStore"] = {}

\* C32: two get_or_create calls with the same criteria, made at once on a
\* collection with no record that passes them: one call returns True, the
\* other False, and one record passes the criteria afterwards.
C32_AtomicGetOrCreate ==
    \A p, q \in Procs :
        (/\ p # q /\ nops = 2
         /\ pc[p] = "done" /\ op[p] = "get_or_create"
         /\ pc[q] = "done" /\ op[q] = "get_or_create"
         /\ mgr[p] = mgr[q] /\ kwargs[p] = kwargs[q]
         /\ defaults[p] = EmptyDict /\ defaults[q] = EmptyDict
         /\ ret[p].kind = "return" /\ ret[q].kind = "return")
        => /\ ret[p].value.created # ret[q].value.created
           /\ Cardinality(Matching(mgr[p], kwargs[p])) = 1

\* C33: the deletion of a database row never ends with DoesNotExist.  When
\* the record CASCADE found is gone by the time CASCADE deletes it, the
\* DoesNotExist of the delete is passed over: the signal goes on to the next
\* receiver and the record is not in the collection.
C33_CascadeNeverRaises ==
    [][\A p \in Procs :
        (op[p] = "db_delete" /\ Stepped(p))
        => /\ ret'[p].kind \in {"none", "return"}
           /\ (pc[p] = "unlock" /\ call[p] = "delete")
              => /\ pc'[p] = "signal"
                 /\ sig'[p].todo = Tail(sig[p].todo)
                 /\ \A T \in CacheTypes :
                        mgr[p] = T => inst[p]["id"] \notin DOMAIN Collection(T)'
                 /\ exc'[p] = "none"]_vars

\* CASCADE found the record, another caller deleted it, and the delete of
\* CASCADE has raised DoesNotExist inside _access_store
C33_Witness ==
    \E p, q \in Procs :
        /\ p # q
        /\ op[p] = "db_delete" /\ pc[p] = "unlock" /\ call[p] = "delete"
        /\ exc[p] = "DoesNotExist"
        /\ op[q] = "delete" /\ pc[q] = "done" /\ ret[q].kind = "return"
        /\ inst[q]["id"] = inst[p]["id"]

\* C34: a delete that fails with DoesNotExist writes nothing: from the
\* block that raises, _access_store goes straight to releasing the lock,
\* and every step of the failing call leaves the backend as it is; a
\* collection that had no entry in the backend still has none.
C34_FailedDeleteWritesNothing ==
    [][\A p \in Procs :
        (call[p] = "delete" /\ Stepped(p))
        => LET n == StoreName(mgr[p]) IN
           /\ (pc[p] = "get" /\ inst[p]["id"] \notin DOMAIN cache_get(n))
              => /\ pc'[p] = "unlock"
                 /\ exc'[p] = "DoesNotExist"
                 /\ cache' = cache
           /\ exc[p] = "DoesNotExist"
              => /\ pc[p] = "unlock"
                 /\ cache' = cache
                 /\ n \notin DOMAIN cache => n \notin DOMAIN cache'
                 /\ p \notin locks'[n]]_vars

\* a delete on a collection that was never written raised DoesNotExist and
\* the backend has no entry for the collection
C34_Witness ==
    \E p \in Procs :
        /\ op[p] = "delete" /\ pc[p] = "done"
        /\ ret[p] = Raised("DoesNotExist")
        /\ StoreName(mgr[p]) \notin DOMAIN cache

\* the names of the locks a process holds
Holding(p) == {n \in DOMAIN locks : p \in locks[n]}

\* C35: a process holds at most one lock, holds none while it waits for
\* one, and holds none between the two critical sections of a composite
\* operation (get_or_create: lookup then create; CASCADE: lookup then
\* delete) or outside _access_store.
C35_OneLockAtATime ==
    \A p \in Procs :
        /\ Cardinality(Holding(p)) <= 1
        /\ pc[p] \in {"idle", "lock", "signal", "done"} => Holding(p) = {}
        /\ pc[p] \in {"get", "set", "unlock"} => Holding(p) = {StoreName(mgr[p])}

\* a get_or_create waits for the lock of its create and the CASCADE of a
\* row deletion waits for the lock of its delete, each after its lookup
C35_Witness ==
    \E p, q \in Procs :
        /\ op[p] = "get_or_create" /\ call[p] = "save" /\ pc[p] = "lock"
        /\ op[q] = "db_delete" /\ call[q] = "delete" /\ pc[q] = "lock"
        /\ Holding(p) = {} /\ Holding(q) = {}

\* C37: a delete that succeeds removes the entry at the primary key of its
\* instance and nothing else, so the collection has one record less; a save
\* of an instance without primary key draws a key the collection does not
\* hold and adds its record under it and nothing else, so the collection
\* has one record more; every other entry is as it was.
C37_ExactlyOneEntry ==
    [][\A p \in Procs : \A T \in CacheTypes :
        (mgr[p] = T /\ Stepped(p))
        => LET old == Collection(T)
               new == Collection(T)'
               k == inst[p]["id"]
           IN  /\ (pc[p] = "get" /\ call[p] = "save" /\ k = None)
                  => /\ inst'[p]["id"] \notin DOMAIN old
                     /\ DOMAIN store'[p] = (DOMAIN old) \cup {inst'[p]["id"]}
                     /\ \A j \in DOMAIN old : store'[p][j] = old[j]
               /\ (pc[p] = "set" /\ call[p] = "save")
                  => /\ new = store[p]
                     /\ \A j \in (DOMAIN old) \ {k} : new[j] = old[j]
                     /\ op[p] = "create"
                        => Cardinality(DOMAIN new) = Cardinality(DOMAIN old) + 1
               /\ (pc[p] = "set" /\ call[p] = "delete")
                  => /\ k \in DOMAIN old
                     /\ DOMAIN new = (DOMAIN old) \ {k}
                     /\ \A j \in DOMAIN new : new[j] = old[j]
                     /\ Cardinality(DOMAIN new) = Cardinality(DOMAIN old) - 1]_vars

\* a record was saved under key 2, a create drew key 3 beside it, and the
\* record of key 2 was deleted: the created record alone is stored
C37_Witness ==
    \E p, q \in Procs :
        /\ op[p] = "delete" /\ pc[p] = "done" /\ ret[p].kind = "return"
        /\ inst[p]["id"] = 2
        /\ op[q] = "create" /\ pc[q] = "done" /\ ret[q].kind = "return"
        /\ ret[q].value["id"] = 3
        /\ DOMAIN Collection("Player") = {3}

\* C39: a save of an instance whose primary key is no key of the collection
\* does not fail: it puts the record under exactly that key and returns the
\* instance; and a save of an instance without primary key draws a key
\* above every key the collection holds, that one included while it stays.
C39_SaveUnknownKey ==
    [][\A p \in Procs : \A T \in CacheTypes :
        (mgr[p] = T /\ Stepped(p) /\ call[p] = "save")
        => LET old == Collection(T)
               k == inst[p]["id"]
           IN  /\ (pc[p] = "get" /\ k # None /\ k \notin DOMAIN old)
                  => /\ pc'[p] = "set"
                     /\ exc'[p] = "none"
                     /\ inst'[p] = inst[p]
                     /\ store'[p] = DictSet(old, k, [f \in ConcreteFields(T) |-> inst[p][f]])
               /\ (pc[p] = "get" /\ k = None)
                  => \A j \in DOMAIN old : inst'[p]["id"] > j
               /\ (pc[p] = "unlock" /\ op[p] = "save")
                  => /\ ret'[p] = Returned(inst[p])
                     /\ k \in DOMAIN old]_vars

\* a record was created under key 1 and deleted, and a copy of it saved
\* afterwards is stored under key 1 again
C39_Witness ==
    \E p, q \in Procs :
        /\ nops = 3
        /\ op[p] = "save" /\ pc[p] = "done" /\ ret[p].kind = "return"
        /\ ret[p].value["id"] = 1
        /\ op[q] = "delete" /\ pc[q] = "done" /\ ret[q].kind = "return"
        /\ inst[q]["id"] = 1
        /\ DOMAIN Collection("Player") = {1}

\* C31: a class definition that succeeds stores one handle per foreign key
\* in the manager, under the name of the field, and none for the primary
\* key; one handle is subscribed under the dispatch_uid of each foreign key,
\* the stored one when none was subscribed under it before; and a
\* definition whose foreign keys all carry a policy function raises
\* nothing, its primary key field notwithstanding.
C31_OneHandlePerForeignKey ==
    [][/\ \A T \in DOMAIN managers' :
            (T \notin DOMAIN managers \/ managers'[T] # managers[T])
            => LET m == managers'[T]
                   Subscribed(rs, f) ==
                       {i \in 1..Len(rs) : rs[i].uid = FieldUid(T, f)}
               IN  /\ DOMAIN m.on_delete_funcs
                        = {ForeignKeys(T)[i] : i \in 1..Len(ForeignKeys(T))}
                   /\ "id" \notin DOMAIN m.on_delete_funcs
                   /\ \A f \in DOMAIN m.on_delete_funcs :
                        /\ m.on_delete_funcs[f].uid = FieldUid(T, f)
                        /\ m.on_delete_funcs[f].on_delete \in Functions
                        /\ m.on_delete_funcs[f].self = m.id
                        /\ Cardinality(Subscribed(receivers', f)) = 1
                        /\ Subscribed(receivers, f) = {}
                           => \E i \in 1..Len(receivers') :
                                 receivers'[i] = m.on_delete_funcs[f]
                   /\ Len(receivers') <= Len(receivers) + Len(ForeignKeys(T))
       /\ \A p \in Procs :
            (op'[p] = "define"
                /\ \A f \in DOMAIN kwargs'[p] : kwargs'[p][f] \in Functions)
            => ret'[p].kind = "return"]_vars

\* Link was defined once, with a policy function on both foreign keys: the
\* two handles of its manager are the receivers of the signal
C31_Witness ==
    /\ nops = 1
    /\ "Link" \in DOMAIN managers
    /\ DOMAIN managers["Link"].on_delete_funcs = {"karaoke", "origin"}
    /\ receivers = << managers["Link"].on_delete_funcs["karaoke"],
                      managers["Link"].on_delete_funcs["origin"] >>

\* C36: when the definition of a record type has raised TypeError and has
\* left no class of that name, no handle of that type is subscribed.
C36_AllOrNothing ==
    \A p \in Procs :
        (op[p] = "define" /\ ret[p].kind = "TypeError"
            /\ mgr[p] \notin DOMAIN managers)
        => \A i \in 1..Len(receivers) : receivers[i].manager # mgr[p]

\* the full field mapping of an instance of T
WholeRecord(T, instance) == [f \in ConcreteFields(T) |-> instance[f]]

\* C38: a record changes or appears only when a save writes its store
\* back, and the entry it leaves under the primary key of its instance is
\* the full field mapping of that instance; it is still so when the save
\* returns.  After saves of the same key the entry is thus the whole record
\* of the save that held the lock last, never fields of two instances.
C38_WholeRecords ==
    [][\A T \in Declarable :
        LET old == Collection(T)
            new == Collection(T)'
        IN  /\ \A k \in DOMAIN new :
                (k \notin DOMAIN old \/ new[k] # old[k])
                => \E p \in Procs :
                      /\ mgr[p] = T /\ call[p] = "save"
                      /\ pc[p] = "set" /\ pc'[p] = "unlock"
                      /\ inst[p]["id"] = k
                      /\ new[k] = WholeRecord(T, inst[p])
            /\ \A p \in Procs :
                (mgr[p] = T /\ op[p] = "save" /\ pc[p] = "unlock" /\ pc'[p] = "done")
                => old[inst[p]["id"]] = WholeRecord(T, inst[p])]_vars

\* two saves of instances with primary key 1 and different field values
\* overlapped, and the entry of key 1 is the whole record of one of them
C38_Witness ==
    \E p, q \in Procs :
        /\ p # q /\ ~solo[p] /\ ~solo[q]
        /\ op[p] = "save" /\ pc[p] = "done" /\ mgr[p] = "Link"
        /\ op[q] = "save" /\ pc[q] = "done" /\ mgr[q] = "Link"
        /\ inst[p]["id"] = 1 /\ inst[q]["id"] = 1
        /\ inst[p]["karaoke"] # inst[q]["karaoke"]
        /\ inst[p]["origin"] # inst[q]["origin"]
        /\ Collection("Link")[1] = WholeRecord("Link", inst[q])

=============================================================================
